---- MODULE Spec2Model ----
(***************************************************************************)
(* A model of the tasmota-go client library: the command executor, the     *)
(* backlog batcher, the HTTP transport's classification of outcomes, the    *)
(* error taxonomy and the typed facades that sit on top of them.            *)
(*                                                                          *)
(* Strings are TLA+ strings handled one character at a time (Len, SubSeq,   *)
(* \o), so trimming, joining, number formatting and URL encoding are        *)
(* computed as the Go code computes them.                                   *)
(***************************************************************************)
EXTENDS Integers, Sequences, FiniteSets, TLC

(***************************************************************************)
(* Strings (the Go standard library calls the code makes)                   *)
(***************************************************************************)

\* s[i] as a string, "" outside s
CharAt(s, i) == IF 1 <= i /\ i <= Len(s) THEN SubSeq(s, i, i) ELSE ""

Chars(s) == {CharAt(s, i) : i \in 1..Len(s)}

\* unicode.IsSpace restricted to the ASCII white space the inputs use
IsSpace(c) == c \in {" ", "\t", "\n", "\r"}

\* strings.TrimSpace: from the first to the last character that is no space
TrimSpace(s) ==
    LET kept == {i \in 1..Len(s) : ~IsSpace(CharAt(s, i))} IN
    IF kept = {} THEN ""
    ELSE SubSeq(s, CHOOSE i \in kept : \A j \in kept : i <= j,
                   CHOOSE i \in kept : \A j \in kept : j <= i)

\* the concatenation of the strings parts[lo..hi], halving the range
RECURSIVE ConcatRange(_, _, _)
ConcatRange(parts, lo, hi) ==
    IF lo > hi THEN ""
    ELSE IF lo = hi THEN parts[lo]
    ELSE LET mid == (lo + hi) \div 2 IN
         ConcatRange(parts, lo, mid) \o ConcatRange(parts, mid + 1, hi)

Concat(parts) == ConcatRange(parts, 1, Len(parts))

\* strings.Join
Join(elems, sep) ==
    IF Len(elems) = 0 THEN ""
    ELSE Concat([i \in 1..(2 * Len(elems) - 1) |->
                    IF i % 2 = 1 THEN elems[(i + 1) \div 2] ELSE sep])

Digit(d) == CharAt("0123456789", d + 1)

RECURSIVE ItoaNat(_)
ItoaNat(n) == IF n < 10 THEN Digit(n) ELSE ItoaNat(n \div 10) \o Digit(n % 10)

\* fmt.Sprintf("%d", n)
Itoa(n) == IF n < 0 THEN "-" \o ItoaNat(0 - n) ELSE ItoaNat(n)

DigitValue(ch) == (CHOOSE d \in 0..9 : Digit(d) = ch)

(***************************************************************************)
(* Error taxonomy                                                           *)
(***************************************************************************)

ErrorTypeNetwork == 0
ErrorTypeAuth == 1
ErrorTypeCommand == 2
ErrorTypeParse == 3
ErrorTypeTimeout == 4
ErrorTypeDevice == 5

ErrorTypes == {ErrorTypeNetwork, ErrorTypeAuth, ErrorTypeCommand,
               ErrorTypeParse, ErrorTypeTimeout, ErrorTypeDevice}

(* An error value is its Unwrap chain, outermost link first; the nil error  *)
(* is the empty chain.  A link is a library *Error (lib = TRUE) or an error *)
(* of another package (lib = FALSE).                                        *)
NilError == << >>

\* an error of another package wrapping cause (fmt.Errorf("...%w"), url.Error)
ForeignError(name, cause) == <<[lib |-> FALSE, name |-> name]>> \o cause

\* NewError: &Error{Type, Message, Err}
NewError(errType, message, err) ==
    <<[lib |-> TRUE, Type |-> errType, Message |-> message]>> \o err

\* Error.Unwrap, and the Unwrap of the foreign wrappers
Unwrap(err) == IF err = NilError THEN NilError ELSE Tail(err)

\* errors.As(err, &tasErr): the first *Error met while unwrapping, or none
RECURSIVE ErrorsAs(_)
ErrorsAs(err) ==
    IF err = NilError THEN [found |-> FALSE, Type |-> -1]
    ELSE IF err[1].lib THEN [found |-> TRUE, Type |-> err[1].Type]
    ELSE ErrorsAs(Unwrap(err))

\* IsKind looking at every library Error of the chain
IsKind_AnyLink(err, errType) ==
    \E i \in 1..Len(err) : err[i].lib /\ err[i].Type = errType

IsKind(err, errType) ==
    LET tasErr == ErrorsAs(err) IN
    IF tasErr.found THEN tasErr.Type = errType ELSE FALSE

IsNetworkError(err) == IsKind(err, ErrorTypeNetwork)
IsAuthError(err) == IsKind(err, ErrorTypeAuth)
IsCommandError(err) == IsKind(err, ErrorTypeCommand)
IsParseError(err) == IsKind(err, ErrorTypeParse)
IsTimeoutError(err) == IsKind(err, ErrorTypeTimeout)
IsDeviceError(err) == IsKind(err, ErrorTypeDevice)

(***************************************************************************)
(* URL query encoding (net/url), as buildURL uses it                        *)
(***************************************************************************)

Unreserved ==
    Chars("abcdefghijklmnopqrstuvwxyzABCDEFGHIJKLMNOPQRSTUVWXYZ0123456789-_.~")

\* the other characters the inputs use, and their percent codes
Specials == ";:\"{}%+&=/?,@#<>\t"
PctCodes == <<"%3B", "%3A", "%22", "%7B", "%7D", "%25", "%2B", "%26", "%3D",
              "%2F", "%3F", "%2C", "%40", "%23", "%3C", "%3E", "%09">>

SpecialIndex(c) == CHOOSE i \in 1..Len(Specials) : CharAt(Specials, i) = c

\* url.QueryEscape of one character: shouldEscape, ' ' -> '+', else %XX
EscapeChar(c) ==
    IF c \in Unreserved THEN c
    ELSE IF c = " " THEN "+"
    ELSE PctCodes[SpecialIndex(c)]

\* url.QueryEscape
QueryEscape(s) == Concat([i \in 1..Len(s) |-> EscapeChar(CharAt(s, i))])

\* the character a percent code stands for
UnescapeCode(code) ==
    CharAt(Specials, CHOOSE j \in 1..Len(PctCodes) : PctCodes[j] = code)

\* url.QueryUnescape: '+' -> ' ', %XX -> the character.  The two characters
\* after a '%' are hex digits and belong to its code.
QueryUnescape(s) ==
    Concat([i \in 1..Len(s) |->
        IF CharAt(s, i - 1) = "%" \/ CharAt(s, i - 2) = "%" THEN ""
        ELSE IF CharAt(s, i) = "%" THEN UnescapeCode(SubSeq(s, i, i + 2))
        ELSE IF CharAt(s, i) = "+" THEN " "
        ELSE CharAt(s, i)])

\* url.Values.Encode: "key=value" pairs, keys in sorted order, joined by '&'
ValuesEncode(pairs) ==
    Join([i \in 1..Len(pairs) |->
             QueryEscape(pairs[i][1]) \o "=" \o QueryEscape(pairs[i][2])], "&")

\* the index of the first occurrence of the character c in s at or after i, else 0
IndexFrom(s, c, i) ==
    LET hits == {j \in i..Len(s) : CharAt(s, j) = c} IN
    IF hits = {} THEN 0 ELSE CHOOSE j \in hits : \A k \in hits : j <= k

\* strings.Split(s, c) for a one-character separator
RECURSIVE SplitFrom(_, _, _)
SplitFrom(s, c, i) ==
    LET j == IndexFrom(s, c, i) IN
    IF j = 0 THEN <<SubSeq(s, i, Len(s))>>
    ELSE <<SubSeq(s, i, j - 1)>> \o SplitFrom(s, c, j + 1)

Split(s, c) == SplitFrom(s, c, 1)

(***************************************************************************)
(* The receiving side of a request: what the device's HTTP server reads     *)
(* out of the URL (url.ParseQuery), used to say what a request carried.     *)
(***************************************************************************)

RawQueryOf(urlStr) ==
    LET q == IndexFrom(urlStr, "?", 1) IN
    IF q = 0 THEN "" ELSE SubSeq(urlStr, q + 1, Len(urlStr))

\* the decoded (key, value) pairs of the query string, in the order sent
QueryPairs(urlStr) ==
    LET raw == RawQueryOf(urlStr)
        parts == IF raw = "" THEN << >> ELSE Split(raw, "&")
        Pair(p) == LET e == IndexFrom(p, "=", 1) IN
                   IF e = 0 THEN <<QueryUnescape(p), "">>
                   ELSE <<QueryUnescape(SubSeq(p, 1, e - 1)),
                          QueryUnescape(SubSeq(p, e + 1, Len(p)))>>
    IN [i \in 1..Len(parts) |-> Pair(parts[i])]

\* url.Values.Get: the first value of key, "" when absent
Param(urlStr, key) ==
    LET ps == QueryPairs(urlStr) IN
    IF \E i \in 1..Len(ps) : ps[i][1] = key
    THEN ps[CHOOSE i \in 1..Len(ps) :
                ps[i][1] = key /\ \A j \in 1..(i - 1) : ps[j][1] # key][2]
    ELSE ""

(***************************************************************************)
(* JSON (encoding/json), as far as the library looks into a response        *)
(***************************************************************************)

JSONFail == [ok |-> FALSE, next |-> 0, val |-> [t |-> "none"]]
JSONOk(next, val) == [ok |-> TRUE, next |-> next, val |-> val]

DigitChars == Chars("0123456789")

RECURSIVE SkipWS(_, _)
SkipWS(s, i) == IF IsSpace(CharAt(s, i)) THEN SkipWS(s, i + 1) ELSE i

RECURSIVE SkipDigits(_, _)
SkipDigits(s, i) == IF CharAt(s, i) \in DigitChars THEN SkipDigits(s, i + 1) ELSE i

\* the index of the quote closing the string whose text starts at i, else 0
RECURSIVE ScanString(_, _)
ScanString(s, i) ==
    LET c == CharAt(s, i) IN
    IF c = "" \/ c \in {"\t", "\n", "\r"} THEN 0
    ELSE IF c = "\"" THEN i
    ELSE IF c = "\\" THEN ScanString(s, i + 2)
    ELSE ScanString(s, i + 1)

ParseString(s, i) ==
    LET e == ScanString(s, i + 1) IN
    IF e = 0 THEN JSONFail
    ELSE JSONOk(e + 1, [t |-> "string", s |-> SubSeq(s, i + 1, e - 1)])

ParseNumber(s, i) ==
    LET a == IF CharAt(s, i) = "-" THEN i + 1 ELSE i
        b == SkipDigits(s, a)
        intOK == b > a /\ (CharAt(s, a) = "0" => b = a + 1)
        c == IF CharAt(s, b) = "." THEN SkipDigits(s, b + 1) ELSE b
        fracOK == CharAt(s, b) = "." => c > b + 1
    IN IF intOK /\ fracOK
       THEN JSONOk(c, [t |-> "number", text |-> SubSeq(s, i, c - 1),
                       int |-> c = b])
       ELSE JSONFail

ParseLiteral(s, i) ==
    IF SubSeq(s, i, IF i + 3 <= Len(s) THEN i + 3 ELSE Len(s)) = "true"
    THEN JSONOk(i + 4, [t |-> "bool", b |-> TRUE])
    ELSE IF SubSeq(s, i, IF i + 4 <= Len(s) THEN i + 4 ELSE Len(s)) = "false"
    THEN JSONOk(i + 5, [t |-> "bool", b |-> FALSE])
    ELSE IF SubSeq(s, i, IF i + 3 <= Len(s) THEN i + 3 ELSE Len(s)) = "null"
    THEN JSONOk(i + 4, [t |-> "null"])
    ELSE JSONFail

RECURSIVE ParseValue(_, _), ParseMembers(_, _, _), ParseElements(_, _, _)

\* one JSON value starting at or after i (white space skipped)
ParseValue(s, i) ==
    LET j == SkipWS(s, i)
        c == CharAt(s, j)
    IN IF c = "{" THEN
           IF CharAt(s, SkipWS(s, j + 1)) = "}"
           THEN JSONOk(SkipWS(s, j + 1) + 1, [t |-> "object", members |-> << >>])
           ELSE ParseMembers(s, j + 1, << >>)
       ELSE IF c = "[" THEN
           IF CharAt(s, SkipWS(s, j + 1)) = "]"
           THEN JSONOk(SkipWS(s, j + 1) + 1, [t |-> "array", elems |-> << >>])
           ELSE ParseElements(s, j + 1, << >>)
       ELSE IF c = "\"" THEN ParseString(s, j)
       ELSE IF c = "-" \/ c \in DigitChars THEN ParseNumber(s, j)
       ELSE IF c = "" THEN JSONFail
       ELSE ParseLiteral(s, j)

\* "key": value pairs up to the closing brace; i is just after '{' or ','
ParseMembers(s, i, acc) ==
    LET k == SkipWS(s, i)
        key == IF CharAt(s, k) = "\"" THEN ParseString(s, k) ELSE JSONFail
        colon == IF key.ok THEN SkipWS(s, key.next) ELSE 0
        v == IF key.ok /\ CharAt(s, colon) = ":"
             THEN ParseValue(s, colon + 1) ELSE JSONFail
        e == IF v.ok THEN SkipWS(s, v.next) ELSE 0
        acc2 == IF v.ok THEN Append(acc, [key |-> key.val.s, val |-> v.val]) ELSE acc
    IN IF ~v.ok THEN JSONFail
       ELSE IF CharAt(s, e) = "," THEN ParseMembers(s, e + 1, acc2)
       ELSE IF CharAt(s, e) = "}" THEN JSONOk(e + 1, [t |-> "object", members |-> acc2])
       ELSE JSONFail

ParseElements(s, i, acc) ==
    LET v == ParseValue(s, i)
        e == IF v.ok THEN SkipWS(s, v.next) ELSE 0
        acc2 == IF v.ok THEN Append(acc, v.val) ELSE acc
    IN IF ~v.ok THEN JSONFail
       ELSE IF CharAt(s, e) = "," THEN ParseElements(s, e + 1, acc2)
       ELSE IF CharAt(s, e) = "]" THEN JSONOk(e + 1, [t |-> "array", elems |-> acc2])
       ELSE JSONFail

\* the whole text as one JSON document
ParseJSON(data) ==
    LET r == ParseValue(data, 1) IN
    IF r.ok /\ SkipWS(data, r.next) = Len(data) + 1 THEN r ELSE JSONFail

\* json.Valid
JSONValid(data) == ParseJSON(data).ok

\* what json.Unmarshal stores in a json.RawMessage: the bytes of the value of
\* a valid document, first to last, without the white space around it
RawValue(data) == SubSeq(data, SkipWS(data, 1), ParseValue(data, 1).next - 1)

(***************************************************************************)
(* Values the Go code returns                                               *)
(***************************************************************************)

Nil == [isNil |-> TRUE]
Some(v) == [isNil |-> FALSE, v |-> v]

(***************************************************************************)
(* Client (client.go)                                                       *)
(***************************************************************************)

StatusOK == 200
StatusUnauthorized == 401

\* what a Go function does up to the point where it either returns or hands a
\* request to httpClient.Do:
\*   invalid  - a facade rejected its arguments itself
\*   execfail - ExecuteCommand / ExecuteBacklog returned an error before any I/O
\*   send     - the request for url is handed to httpClient.Do
\* post names what the caller does with ExecuteCommand's result afterwards.
\* held is a result of an earlier request that the operation keeps for later.
Invalid(err) ==
    [t |-> "invalid", err |-> err, url |-> "", post |-> "err", arg |-> "", held |-> Nil]
ExecFail(err) ==
    [t |-> "execfail", err |-> err, url |-> "", post |-> "raw", arg |-> "", held |-> Nil]
Send(urlStr) ==
    [t |-> "send", err |-> NilError, url |-> urlStr, post |-> "raw", arg |-> "", held |-> Nil]

\* the caller's continuation replaces the callee's, unless the caller never
\* reached the call
Then(plan, post, arg) ==
    IF plan.t = "invalid" THEN plan ELSE [plan EXCEPT !.post = post, !.arg = arg]

\* buildURL writing the query string without escaping it
buildURL_Unescaped(c, command) ==
    IF command = ""
    THEN [url |-> "", err |-> NewError(ErrorTypeCommand, "command cannot be empty", NilError)]
    ELSE [url |-> c.baseURL \o "/cm" \o "?cmnd=" \o command
                  \o (IF c.password # "" THEN "&password=" \o c.password ELSE "")
                  \o (IF c.username # "" THEN "&user=" \o c.username ELSE ""),
          err |-> NilError]

\* Client.buildURL.  c.baseURL went through normalizeHost in NewClient, so
\* url.Parse accepts it; the base URLs of Clients carry no path or query.
buildURL(c, command) ==
    IF command = ""
    THEN [url |-> "", err |-> NewError(ErrorTypeCommand, "command cannot be empty", NilError)]
    ELSE LET q == <<<<"cmnd", command>>>>
                  \o (IF c.password # "" THEN <<<<"password", c.password>>>> ELSE << >>)
                  \o (IF c.username # "" THEN <<<<"user", c.username>>>> ELSE << >>)
         IN [url |-> c.baseURL \o "/cm" \o "?" \o ValuesEncode(q), err |-> NilError]

\* the error httpClient.Do or io.ReadAll returns, by its cause
TransportError(cause, ctxErr) ==
    IF cause = "context"
    THEN ForeignError("url.Error", ForeignError("context." \o ctxErr, NilError))
    ELSE ForeignError("url.Error", ForeignError(cause, NilError))

\* do with the 401 case left out: every status but 200 is a Network error
do_NoAuthCase(c, ctxErr, o) ==
    IF o.t = "error" THEN
        [body |-> Nil,
         err |-> NewError(IF ctxErr = "DeadlineExceeded"
                          THEN ErrorTypeTimeout ELSE ErrorTypeNetwork,
                          "request failed", TransportError(o.cause, ctxErr))]
    ELSE IF o.read # "ok" THEN
        [body |-> Nil,
         err |-> NewError(ErrorTypeNetwork, "failed to read response",
                          TransportError(o.read, ctxErr))]
    ELSE IF o.status # StatusOK THEN
        [body |-> Nil,
         err |-> NewError(ErrorTypeNetwork,
                          "unexpected status code: " \o Itoa(o.status), NilError)]
    ELSE [body |-> Some(o.body), err |-> NilError]

\* do taking the expiry of the HTTP client's own Timeout for a timeout as well
do_ClientTimeoutIsTimeout(c, ctxErr, o) ==
    IF o.t = "error" THEN
        IF ctxErr = "DeadlineExceeded" \/ o.cause = "http.Client.Timeout"
        THEN [body |-> Nil,
              err |-> NewError(ErrorTypeTimeout, "request timeout",
                               TransportError(o.cause, ctxErr))]
        ELSE [body |-> Nil,
              err |-> NewError(ErrorTypeNetwork, "request failed",
                               TransportError(o.cause, ctxErr))]
    ELSE IF o.read # "ok" THEN
        [body |-> Nil,
         err |-> NewError(ErrorTypeNetwork, "failed to read response",
                          TransportError(o.read, ctxErr))]
    ELSE IF o.status # StatusOK THEN
        IF o.status = StatusUnauthorized
        THEN [body |-> Nil,
              err |-> NewError(ErrorTypeAuth, "authentication failed", NilError)]
        ELSE [body |-> Nil,
              err |-> NewError(ErrorTypeNetwork,
                               "unexpected status code: " \o Itoa(o.status), NilError)]
    ELSE [body |-> Some(o.body), err |-> NilError]

\* Client.do from the return of httpClient.Do on: o is what the HTTP client
\* produced, ctxErr is ctx.Err() at that moment.
do(c, ctxErr, o) ==
    IF o.t = "error" THEN
        IF ctxErr = "DeadlineExceeded"
        THEN [body |-> Nil,
              err |-> NewError(ErrorTypeTimeout, "request timeout",
                               TransportError(o.cause, ctxErr))]
        ELSE [body |-> Nil,
              err |-> NewError(ErrorTypeNetwork, "request failed",
                               TransportError(o.cause, ctxErr))]
    ELSE IF o.read # "ok" THEN
        [body |-> Nil,
         err |-> NewError(ErrorTypeNetwork, "failed to read response",
                          TransportError(o.read, ctxErr))]
    ELSE IF o.status # StatusOK THEN
        IF o.status = StatusUnauthorized
        THEN [body |-> Nil,
              err |-> NewError(ErrorTypeAuth, "authentication failed", NilError)]
        ELSE [body |-> Nil,
              err |-> NewError(ErrorTypeNetwork,
                               "unexpected status code: " \o Itoa(o.status), NilError)]
    ELSE [body |-> Some(o.body), err |-> NilError]

(***************************************************************************)
(* Command executor and backlog batcher                                     *)
(***************************************************************************)

\* ExecuteCommand without its own check and with buildURL's error dropped
ExecuteCommand_Unchecked(c, command) == Send(buildURL(c, command).url)

\* ExecuteCommand up to c.do
ExecuteCommand(c, command) ==
    IF command = ""
    THEN ExecFail(NewError(ErrorTypeCommand, "command cannot be empty", NilError))
    ELSE LET b == buildURL(c, command) IN
         IF b.err # NilError THEN ExecFail(b.err) ELSE Send(b.url)

\* ExecuteCommand handing the body back along with its Parse error
ExecuteCommandReturn_BodyWithError(d) ==
    IF d.err # NilError THEN [called |-> TRUE, raw |-> Nil, err |-> d.err]
    ELSE IF ~JSONValid(d.body.v)
    THEN [called |-> TRUE, raw |-> Some(d.body.v),
          err |-> NewError(ErrorTypeParse, "invalid JSON response",
                           ForeignError("json.SyntaxError", NilError))]
    ELSE [called |-> TRUE, raw |-> Some(RawValue(d.body.v)), err |-> NilError]

\* ExecuteCommand from the return of c.do on: json.Unmarshal into a
\* json.RawMessage
ExecuteCommandReturn(d) ==
    IF d.err # NilError THEN [called |-> TRUE, raw |-> Nil, err |-> d.err]
    ELSE IF ~JSONValid(d.body.v)
    THEN [called |-> TRUE, raw |-> Nil,
          err |-> NewError(ErrorTypeParse, "invalid JSON response",
                           ForeignError("json.SyntaxError", NilError))]
    ELSE [called |-> TRUE, raw |-> Some(RawValue(d.body.v)), err |-> NilError]

MaxBacklogCommands == 30

\* the loop trimming every command but keeping the empty ones as well
FilterCommands_KeepBlank(commands) ==
    [i \in 1..Len(commands) |-> TrimSpace(commands[i])]

\* the loop that trims every command and keeps the non-empty ones
FilterCommands(commands) ==
    SelectSeq([i \in 1..Len(commands) |-> TrimSpace(commands[i])],
              LAMBDA cmd : cmd # "")

\* ExecuteBacklog joining with ";" instead of "; "
ExecuteBacklog_JoinNoSpace(c, commands) ==
    IF Len(commands) = 0 \/ Len(commands) > MaxBacklogCommands
    THEN ExecFail(NewError(ErrorTypeCommand, "no commands provided", NilError))
    ELSE LET validCommands == FilterCommands(commands) IN
         IF Len(validCommands) = 0
         THEN ExecFail(NewError(ErrorTypeCommand, "no valid commands provided", NilError))
         ELSE ExecuteCommand(c, "Backlog " \o Join(validCommands, ";"))

\* ExecuteBacklog applying the limit of 30 after the blank commands are dropped
ExecuteBacklog_CountAfterFilter(c, commands) ==
    LET validCommands == FilterCommands(commands) IN
    IF Len(validCommands) = 0
    THEN ExecFail(NewError(ErrorTypeCommand, "no valid commands provided", NilError))
    ELSE IF Len(validCommands) > MaxBacklogCommands
    THEN ExecFail(NewError(ErrorTypeCommand, "backlog supports maximum 30 commands", NilError))
    ELSE ExecuteCommand(c, "Backlog " \o Join(validCommands, "; "))

\* ExecuteBacklog
ExecuteBacklog(c, commands) ==
    IF Len(commands) = 0
    THEN ExecFail(NewError(ErrorTypeCommand, "no commands provided", NilError))
    ELSE IF Len(commands) > MaxBacklogCommands
    THEN ExecFail(NewError(ErrorTypeCommand, "backlog supports maximum 30 commands", NilError))
    ELSE LET validCommands == FilterCommands(commands) IN
         IF Len(validCommands) = 0
         THEN ExecFail(NewError(ErrorTypeCommand, "no valid commands provided", NilError))
         ELSE ExecuteCommand(c, "Backlog " \o Join(validCommands, "; "))

(***************************************************************************)
(* Typed decoding of a response (json.Unmarshal into a struct)              *)
(***************************************************************************)

SStruct(fields) == [t |-> "struct", fields |-> fields]

\* json.Unmarshal accepts val for a destination of this shape: null leaves
\* the destination alone, unknown keys are skipped, a known key needs a value
\* of its field's type.  (Keys are compared as written; the sample bodies use
\* the firmware's spelling.)
RECURSIVE Fits(_, _)
Fits(val, schema) ==
    IF val.t = "null" THEN TRUE
    ELSE IF schema.t = "string" THEN val.t = "string"
    ELSE IF schema.t = "int" THEN val.t = "number" /\ val.int
    ELSE /\ val.t = "object"
         /\ \A i \in 1..Len(val.members) :
                val.members[i].key \in DOMAIN schema.fields
                    => Fits(val.members[i].val, schema.fields[val.members[i].key])

\* the value decoded into the field key: the last member of that name
Member(val, key) ==
    IF val.t = "object" /\ \E i \in 1..Len(val.members) : val.members[i].key = key
    THEN val.members[CHOOSE i \in 1..Len(val.members) :
                        /\ val.members[i].key = key
                        /\ \A j \in (i + 1)..Len(val.members) :
                               val.members[j].key # key].val
    ELSE [t |-> "null"]

StringField(val, key) ==
    LET m == Member(val, key) IN IF m.t = "string" THEN m.s ELSE ""

\* the value of a JSON integer literal
RECURSIVE DecimalValue(_)
DecimalValue(text) ==
    IF text = "" THEN 0
    ELSE IF CharAt(text, 1) = "-" THEN 0 - DecimalValue(SubSeq(text, 2, Len(text)))
    ELSE 10 * DecimalValue(SubSeq(text, 1, Len(text) - 1))
         + DigitValue(CharAt(text, Len(text)))

IntField(val, key) ==
    LET m == Member(val, key)
    IN IF m.t = "number" /\ m.int THEN DecimalValue(m.text) ELSE 0

\* PowerResponse
PowerFields == {"POWER", "POWER1", "POWER2", "POWER3", "POWER4", "POWER5",
                "POWER6", "POWER7", "POWER8"}

PowerResponseSchema == SStruct([k \in PowerFields |-> [t |-> "string"]])

\* StatusResponse, with the fields of the sub-objects the library reads
StatusInfoSchema ==
    SStruct([k \in {"DeviceName", "Topic"} |-> [t |-> "string"]]
            @@ [k \in {"Module", "PowerOnState", "LedState"} |-> [t |-> "int"]])

StatusMQTTSchema ==
    SStruct([k \in {"MqttHost", "MqttUser"} |-> [t |-> "string"]]
            @@ [k \in {"MqttPort", "MqttCount"} |-> [t |-> "int"]])

StatusStateSchema ==
    SStruct([k \in {"Uptime"} |-> [t |-> "string"]] @@ [k \in {"UptimeSec"} |-> [t |-> "int"]])

StatusResponseSchema ==
    SStruct([k \in {"Status"} |-> StatusInfoSchema]
            @@ [k \in {"StatusMQT"} |-> StatusMQTTSchema]
            @@ [k \in {"StatusSTS"} |-> StatusStateSchema]
            @@ [k \in {"StatusPRM", "StatusFWR", "StatusLOG", "StatusMEM",
                       "StatusNET", "StatusTIM", "StatusSNS", "StatusPTH"}
                  |-> SStruct(<< >>)])

UnmarshalError == ForeignError("json.UnmarshalTypeError", NilError)

(***************************************************************************)
(* What a facade does with ExecuteCommand's result                          *)
(***************************************************************************)

\* executePowerCommand from the return of ExecuteCommand on
executePowerCommandReturn(e) ==
    IF e.err # NilError THEN [err |-> e.err, val |-> Nil]
    ELSE LET Decode(v) ==
                 IF ~Fits(v, PowerResponseSchema)
                 THEN [err |-> NewError(ErrorTypeParse, "failed to parse power response",
                                        UnmarshalError),
                       val |-> Nil]
                 ELSE [err |-> NilError,
                       val |-> Some([k \in PowerFields |-> StringField(v, k)])]
         IN Decode(ParseJSON(e.raw.v).val)

\* Status wrapping ExecuteCommand's error into a Parse error of its own
StatusRewrapped(e) ==
    IF e.err # NilError
    THEN [err |-> NewError(ErrorTypeParse, "failed to parse status response", e.err),
          val |-> Nil]
    ELSE [err |-> NilError, val |-> Some(ParseJSON(e.raw.v).val)]

\* Status from the return of ExecuteCommand on
StatusReturn(e) ==
    IF e.err # NilError THEN [err |-> e.err, val |-> Nil]
    ELSE LET Decode(v) ==
                 IF ~Fits(v, StatusResponseSchema)
                 THEN [err |-> NewError(ErrorTypeParse, "failed to parse status response",
                                        UnmarshalError),
                       val |-> Nil]
                 ELSE [err |-> NilError, val |-> Some(v)]
         IN Decode(ParseJSON(e.raw.v).val)

\* GetDeviceInfo .. GetState handing the sub-object field on as it is, nil
\* included
StatusFieldReturn_NoNilCheck(e, field) ==
    LET Pick(resp) ==
            IF resp.err # NilError THEN [err |-> resp.err, val |-> Nil]
            ELSE IF Member(resp.val.v, field).t = "null"
            THEN [err |-> NilError, val |-> Nil]
            ELSE [err |-> NilError, val |-> Some(Member(resp.val.v, field))]
    IN Pick(StatusReturn(e))

\* GetDeviceInfo .. GetState from the return of Status on: the sub-object
\* field of the response, a Parse error when it is nil
StatusFieldReturn(e, field) ==
    LET Pick(resp) ==
            IF resp.err # NilError THEN [err |-> resp.err, val |-> Nil]
            ELSE IF Member(resp.val.v, field).t = "null"
            THEN [err |-> NewError(ErrorTypeParse,
                                   "status response missing " \o field \o " field",
                                   NilError),
                  val |-> Nil]
            ELSE [err |-> NilError, val |-> Some(Member(resp.val.v, field))]
    IN Pick(StatusReturn(e))

\* GetMQTTConfig from the return of its GetDeviceInfo call on; mqttInfo is
\* what its GetMQTTInfo call returned
GetMQTTConfigReturn(deviceInfo, mqttInfo) ==
    IF deviceInfo.err # NilError THEN [err |-> deviceInfo.err, val |-> Nil]
    ELSE [err |-> NilError,
          val |-> Some([Host |-> StringField(mqttInfo, "MqttHost"),
                        Port |-> IntField(mqttInfo, "MqttPort"),
                        User |-> StringField(mqttInfo, "MqttUser"),
                        Password |-> "", Client |-> "",
                        Topic |-> StringField(deviceInfo.val.v, "Topic"),
                        FullTopic |-> "", GroupTopic |-> "",
                        Retain |-> FALSE, TelePeriod |-> 0,
                        Prefix1 |-> "", Prefix2 |-> "", Prefix3 |-> ""])]

\* TestMQTTConnection content with a configured host
TestMQTTConnectionReturn_HostOnly(mqttInfo) ==
    IF mqttInfo.err # NilError THEN [err |-> mqttInfo.err, val |-> Nil]
    ELSE IF StringField(mqttInfo.val.v, "MqttHost") = ""
    THEN [err |-> NewError(ErrorTypeDevice, "MQTT host not configured", NilError),
          val |-> Nil]
    ELSE [err |-> NilError, val |-> Nil]

\* TestMQTTConnection from the return of GetMQTTInfo on
TestMQTTConnectionReturn(mqttInfo) ==
    IF mqttInfo.err # NilError THEN [err |-> mqttInfo.err, val |-> Nil]
    ELSE IF StringField(mqttInfo.val.v, "MqttHost") = ""
    THEN [err |-> NewError(ErrorTypeDevice, "MQTT host not configured", NilError),
          val |-> Nil]
    ELSE IF IntField(mqttInfo.val.v, "MqttCount") = 0
    THEN [err |-> NewError(ErrorTypeDevice, "MQTT not connected", NilError),
          val |-> Nil]
    ELSE [err |-> NilError, val |-> Nil]

\* post = "raw":      the caller of ExecuteCommand / ExecuteBacklog gets (raw, err)
\* post = "err":      the facade returns err alone (_, err := ...; return err)
\* post = "power":    executePowerCommand's (resp, err)
\* post = "powerErr": the err of executePowerCommand alone (SetPowerOn ..)
\* post = "status":   Status's (resp, err)
\* post = "field":    the sub-object arg of a status response
\* post = "mqttInfo":   GetMQTTConfig's first call, GetMQTTInfo
\* post = "mqttConfig": GetMQTTConfig's second call, GetDeviceInfo; held is
\*                      the mqttInfo of the first
\* post = "mqttTest":   TestMQTTConnection's checks of GetMQTTInfo's result
Finish(p, e) ==
    IF p.post = "raw" THEN [err |-> e.err, val |-> e.raw]
    ELSE IF p.post = "power" THEN executePowerCommandReturn(e)
    ELSE IF p.post = "powerErr"
    THEN [err |-> executePowerCommandReturn(e).err, val |-> Nil]
    ELSE IF p.post = "status" THEN StatusReturn(e)
    ELSE IF p.post \in {"field", "mqttInfo", "mqttConfig", "mqttTest"}
    THEN LET With(info) ==
                 IF p.post = "mqttConfig" THEN GetMQTTConfigReturn(info, p.held.v)
                 ELSE IF p.post = "mqttTest" THEN TestMQTTConnectionReturn(info)
                 ELSE info
         IN With(StatusFieldReturn(e, p.arg))
    ELSE [err |-> e.err, val |-> Nil]

(***************************************************************************)
(* Power facade (power.go)                                                  *)
(***************************************************************************)

InvalidCommand(message) == Invalid(NewError(ErrorTypeCommand, message, NilError))

\* PowerResponse.IsOn over PowerResponse.GetState: the field of the relay
\* (0 is POWER, 1..8 are POWER1..POWER8, "" otherwise), compared with "ON"
\* after strings.ToUpper
IsOn(p, relayNum) ==
    LET state == IF relayNum = 0 THEN p["POWER"]
                 ELSE IF relayNum \in 1..8 THEN p["POWER" \o Itoa(relayNum)]
                 ELSE ""
        lower == "abcdefghijklmnopqrstuvwxyz"
        upper == "ABCDEFGHIJKLMNOPQRSTUVWXYZ"
        ToUpperChar(ch) ==
            IF \E i \in 1..Len(lower) : CharAt(lower, i) = ch
            THEN CharAt(upper, CHOOSE i \in 1..Len(lower) : CharAt(lower, i) = ch)
            ELSE ch
    IN Concat([i \in 1..Len(state) |-> ToUpperChar(CharAt(state, i))]) = "ON"

\* PowerN addressing the main relay whatever the relay number
PowerN_MainRelay(c, relayNum, state) ==
    IF relayNum < 1 \/ relayNum > 8
    THEN Invalid(NewError(ErrorTypeCommand, "relay number must be between 1 and 8",
                          NilError))
    ELSE Then(ExecuteCommand(c, "Power " \o state), "power", "")

executePowerCommand(c, cmd) == Then(ExecuteCommand(c, cmd), "power", "")

Power(c, state) == executePowerCommand(c, "Power " \o state)

PowerN(c, relayNum, state) ==
    IF relayNum < 1 \/ relayNum > 8
    THEN InvalidCommand("relay number must be between 1 and 8")
    ELSE executePowerCommand(c, "Power" \o Itoa(relayNum) \o " " \o state)

GetPower(c) == executePowerCommand(c, "Power")

GetPowerN(c, relayNum) ==
    IF relayNum < 1 \/ relayNum > 8
    THEN InvalidCommand("relay number must be between 1 and 8")
    ELSE executePowerCommand(c, "Power" \o Itoa(relayNum))

\* SetPowerOn: relay 0 is the main relay
SetPowerOn(c, relayNum) ==
    IF relayNum = 0 THEN Then(Power(c, "ON"), "powerErr", "")
    ELSE Then(PowerN(c, relayNum, "ON"), "powerErr", "")

(***************************************************************************)
(* Status facade (status.go)                                                *)
(***************************************************************************)

\* string(rune('0' + category)): the character with that code point
RuneString(code) == CharAt("0123456789:;", code - 47)

Status(c, category) ==
    IF category < 0 \/ category > 11
    THEN InvalidCommand("status category must be between 0 and 11")
    ELSE Then(ExecuteCommand(c, IF category > 0
                                THEN "Status " \o RuneString(48 + category)
                                ELSE "Status"),
              "status", "")

GetDeviceInfo(c) == Then(Status(c, 1), "field", "Status")
GetFirmwareInfo(c) == Then(Status(c, 2), "field", "StatusFWR")
GetNetworkInfo(c) == Then(Status(c, 5), "field", "StatusNET")
GetMQTTInfo(c) == Then(Status(c, 6), "field", "StatusMQT")
GetSensorData(c) == Then(Status(c, 10), "field", "StatusSNS")
GetState(c) == Then(Status(c, 11), "field", "StatusSTS")

(***************************************************************************)
(* MQTT queries (mqtt.go)                                                   *)
(***************************************************************************)

\* GetMQTTConfig asking for the device status first
GetMQTTConfig_DeviceFirst(c) == Then(GetDeviceInfo(c), "mqttInfo", "Status")

\* GetMQTTConfig up to its first request; Complete goes on to GetDeviceInfo
GetMQTTConfig(c) == Then(GetMQTTInfo(c), "mqttInfo", "StatusMQT")

TestMQTTConnection(c) == Then(GetMQTTInfo(c), "mqttTest", "StatusMQT")

(***************************************************************************)
(* Configuration facade (config.go)                                         *)
(***************************************************************************)

\* the facades that run one command and return its error
ExecuteForErr(c, cmd) == Then(ExecuteCommand(c, cmd), "err", "")
BacklogForErr(c, commands) == Then(ExecuteBacklog(c, commands), "err", "")

SetDeviceName(c, name) ==
    IF name = "" THEN InvalidCommand("device name cannot be empty")
    ELSE ExecuteForErr(c, "DeviceName " \o name)

SetFriendlyNameN(c, index, name) ==
    IF index < 1 \/ index > 8
    THEN InvalidCommand("friendly name index must be between 1 and 8")
    ELSE IF name = "" THEN InvalidCommand("friendly name cannot be empty")
    ELSE ExecuteForErr(c, "FriendlyName" \o Itoa(index) \o " " \o name)

SetPowerOnState(c, state) ==
    IF state < 0 \/ state > 5
    THEN InvalidCommand("power on state must be between 0 and 5")
    ELSE ExecuteForErr(c, "PowerOnState " \o Itoa(state))

SetLedState(c, state) ==
    IF state < 0 \/ state > 8
    THEN InvalidCommand("LED state must be between 0 and 8")
    ELSE ExecuteForErr(c, "LedState " \o Itoa(state))

\* SetSleep accepting one value too many at the top of its range
SetSleep_OffByOne(c, duration) ==
    IF duration < 0 \/ duration > 251
    THEN InvalidCommand("sleep duration must be between 0 and 250")
    ELSE ExecuteForErr(c, "Sleep " \o Itoa(duration))

SetSleep(c, duration) ==
    IF duration < 0 \/ duration > 250
    THEN InvalidCommand("sleep duration must be between 0 and 250")
    ELSE ExecuteForErr(c, "Sleep " \o Itoa(duration))

\* the sub-command of a numeric field when it is in its range
\* a setting that is passed over while its field holds the zero value
RangedCommand_SkipZero(setting, value, lo, hi) ==
    IF value # 0 /\ value >= lo /\ value <= hi
    THEN <<setting \o " " \o Itoa(value)>> ELSE << >>

RangedCommand(setting, value, lo, hi) ==
    IF value >= lo /\ value <= hi THEN <<setting \o " " \o Itoa(value)>> ELSE << >>

FriendlyNameCommands(names) ==
    SelectSeq([i \in 1..Len(names) |->
                  IF names[i] # "" THEN "FriendlyName" \o Itoa(i) \o " " \o names[i]
                  ELSE ""],
              LAMBDA cmd : cmd # "")

\* ApplyConfig listing LedState ahead of PowerOnState
ApplyConfig_LedFirst(c, cfg) ==
    IF cfg.isNil THEN InvalidCommand("config cannot be nil")
    ELSE LET d == cfg.v
             commands ==
                 (IF d.DeviceName # "" THEN <<"DeviceName " \o d.DeviceName>> ELSE << >>)
                 \o FriendlyNameCommands(d.FriendlyName)
                 \o RangedCommand("LedState", d.LedState, 0, 8)
                 \o RangedCommand("PowerOnState", d.PowerOnState, 0, 5)
                 \o RangedCommand("Sleep", d.Sleep, 0, 250)
                 \o RangedCommand("ButtonRetain", d.ButtonRetain, 0, 1)
                 \o RangedCommand("SwitchRetain", d.SwitchRetain, 0, 1)
                 \o RangedCommand("SensorRetain", d.SensorRetain, 0, 1)
                 \o RangedCommand("PowerRetain", d.PowerRetain, 0, 1)
         IN IF Len(commands) = 0
            THEN InvalidCommand("no valid configuration changes to apply")
            ELSE BacklogForErr(c, commands)

\* ApplyConfig; cfg is Nil or Some(DeviceConfig)
ApplyConfig(c, cfg) ==
    IF cfg.isNil THEN InvalidCommand("config cannot be nil")
    ELSE LET d == cfg.v
             commands ==
                 (IF d.DeviceName # "" THEN <<"DeviceName " \o d.DeviceName>> ELSE << >>)
                 \o FriendlyNameCommands(d.FriendlyName)
                 \o RangedCommand("PowerOnState", d.PowerOnState, 0, 5)
                 \o RangedCommand("LedState", d.LedState, 0, 8)
                 \o RangedCommand("Sleep", d.Sleep, 0, 250)
                 \o RangedCommand("ButtonRetain", d.ButtonRetain, 0, 1)
                 \o RangedCommand("SwitchRetain", d.SwitchRetain, 0, 1)
                 \o RangedCommand("SensorRetain", d.SensorRetain, 0, 1)
                 \o RangedCommand("PowerRetain", d.PowerRetain, 0, 1)
         IN IF Len(commands) = 0
            THEN InvalidCommand("no valid configuration changes to apply")
            ELSE BacklogForErr(c, commands)

Restart(c, reason) ==
    IF reason # 1 /\ reason # 99
    THEN InvalidCommand("restart reason must be 1 (normal) or 99 (reset)")
    ELSE ExecuteForErr(c, "Restart " \o Itoa(reason))

ValidResetLevels == {1, 2, 3, 4, 5, 6, 99}

\* Reset without the check of its level
Reset_AnyLevel(c, level) == ExecuteForErr(c, "Reset " \o Itoa(level))

Reset(c, level) ==
    IF level \notin ValidResetLevels THEN InvalidCommand("invalid reset level")
    ELSE ExecuteForErr(c, "Reset " \o Itoa(level))

\* SetOption; value is the interface{} argument with its dynamic type
SetOption(c, option, value) ==
    IF option < 0 THEN InvalidCommand("option number cannot be negative")
    ELSE IF value.type = "bool"
    THEN ExecuteForErr(c, "SetOption" \o Itoa(option) \o " " \o (IF value.v THEN "1" ELSE "0"))
    ELSE IF value.type = "int"
    THEN ExecuteForErr(c, "SetOption" \o Itoa(option) \o " " \o Itoa(value.v))
    ELSE IF value.type = "string"
    THEN ExecuteForErr(c, "SetOption" \o Itoa(option) \o " " \o value.v)
    ELSE InvalidCommand("unsupported value type for SetOption")

SetTelePeriod(c, seconds) ==
    IF seconds < 10 \/ seconds > 3600
    THEN InvalidCommand("telemetry period must be between 10 and 3600 seconds")
    ELSE ExecuteForErr(c, "TelePeriod " \o Itoa(seconds))

(***************************************************************************)
(* MQTT facade (mqtt.go)                                                    *)
(***************************************************************************)

SetMQTTHost(c, host) ==
    IF host = "" THEN InvalidCommand("MQTT host cannot be empty")
    ELSE ExecuteForErr(c, "MqttHost " \o host)

SetMQTTPort(c, port) ==
    IF port < 1 \/ port > 65535
    THEN InvalidCommand("MQTT port must be between 1 and 65535")
    ELSE ExecuteForErr(c, "MqttPort " \o Itoa(port))

\* SetOption3 is inverted: 0 enables MQTT
EnableMQTT(c, enable) ==
    SetOption(c, 3, [type |-> "int", v |-> IF enable THEN 0 ELSE 1])

TextCommand(setting, text) ==
    IF text # "" THEN <<setting \o " " \o text>> ELSE << >>

\* SetMQTTConfig switching MQTT on after the settings instead of before
SetMQTTConfig_EnableLast(c, cfg) ==
    IF cfg.isNil THEN InvalidCommand("MQTT config cannot be nil")
    ELSE LET m == cfg.v
             commands ==
                 TextCommand("MqttHost", m.Host)
                 \o (IF m.Port > 0 /\ m.Port <= 65535
                     THEN <<"MqttPort " \o Itoa(m.Port)>> ELSE << >>)
                 \o TextCommand("MqttUser", m.User)
                 \o TextCommand("MqttPassword", m.Password)
                 \o TextCommand("MqttClient", m.Client)
                 \o TextCommand("Topic", m.Topic)
                 \o TextCommand("FullTopic", m.FullTopic)
                 \o TextCommand("GroupTopic", m.GroupTopic)
                 \o TextCommand("Prefix1", m.Prefix1)
                 \o TextCommand("Prefix2", m.Prefix2)
                 \o TextCommand("Prefix3", m.Prefix3)
                 \o (IF m.Retain THEN <<"PowerRetain 1">> ELSE << >>)
                 \o RangedCommand("TelePeriod", m.TelePeriod, 10, 3600)
                 \o <<"SetOption3 0">>
         IN IF Len(commands) <= 1
            THEN InvalidCommand("no valid MQTT configuration changes to apply")
            ELSE BacklogForErr(c, commands)

\* SetMQTTConfig; cfg is Nil or Some(MQTTConfig)
SetMQTTConfig(c, cfg) ==
    IF cfg.isNil THEN InvalidCommand("MQTT config cannot be nil")
    ELSE LET m == cfg.v
             commands ==
                 <<"SetOption3 0">>
                 \o TextCommand("MqttHost", m.Host)
                 \o (IF m.Port > 0 /\ m.Port <= 65535
                     THEN <<"MqttPort " \o Itoa(m.Port)>> ELSE << >>)
                 \o TextCommand("MqttUser", m.User)
                 \o TextCommand("MqttPassword", m.Password)
                 \o TextCommand("MqttClient", m.Client)
                 \o TextCommand("Topic", m.Topic)
                 \o TextCommand("FullTopic", m.FullTopic)
                 \o TextCommand("GroupTopic", m.GroupTopic)
                 \o TextCommand("Prefix1", m.Prefix1)
                 \o TextCommand("Prefix2", m.Prefix2)
                 \o TextCommand("Prefix3", m.Prefix3)
                 \o (IF m.Retain THEN <<"PowerRetain 1">> ELSE << >>)
                 \o RangedCommand("TelePeriod", m.TelePeriod, 10, 3600)
         IN IF Len(commands) <= 1
            THEN InvalidCommand("no valid MQTT configuration changes to apply")
            ELSE BacklogForErr(c, commands)

(***************************************************************************)
(* Network facade (network.go)                                              *)
(***************************************************************************)

\* one field of a dotted-quad address: 1 to 3 digits, no leading zero, <= 255
IsOctet(part) ==
    /\ Len(part) \in 1..3
    /\ \A i \in 1..Len(part) : CharAt(part, i) \in DigitChars
    /\ (Len(part) > 1 => CharAt(part, 1) # "0")
    /\ (IF Len(part) = 3
        THEN 100 * DigitValue(CharAt(part, 1)) + 10 * DigitValue(CharAt(part, 2))
             + DigitValue(CharAt(part, 3))
        ELSE 0) <= 255

\* net.ParseIP(s) # nil, for IPv4 text (the inputs hold no IPv6 addresses)
ParseIPOk(text) ==
    LET parts == Split(text, ".") IN
    Len(parts) = 4 /\ \A i \in 1..4 : IsOctet(parts[i])

SetHostname(c, hostname) ==
    IF hostname = "" THEN InvalidCommand("hostname cannot be empty")
    ELSE IF Len(hostname) > 32 THEN InvalidCommand("hostname cannot exceed 32 characters")
    ELSE ExecuteForErr(c, "Hostname " \o hostname)

SetStaticIP(c, ip, gateway, subnet) ==
    IF ~ParseIPOk(ip) THEN InvalidCommand("invalid IP address")
    ELSE IF ~ParseIPOk(gateway) THEN InvalidCommand("invalid gateway address")
    ELSE IF ~ParseIPOk(subnet) THEN InvalidCommand("invalid subnet mask")
    ELSE BacklogForErr(c, <<"IPAddress1 " \o ip, "IPAddress2 " \o gateway,
                            "IPAddress3 " \o subnet>>)

EnableDHCP(c, enable) ==
    IF enable THEN ExecuteForErr(c, "IPAddress1 0.0.0.0")
    ELSE InvalidCommand("to disable DHCP, use SetStaticIP")

SetDNSServer(c, dnsServer) ==
    IF ~ParseIPOk(dnsServer) THEN InvalidCommand("invalid DNS server address")
    ELSE ExecuteForErr(c, "IPAddress4 " \o dnsServer)

\* SetNetworkConfig taking the DNS server as it is given
SetNetworkConfig_DNSUnchecked(c, cfg) ==
    IF cfg.isNil THEN InvalidCommand("network config cannot be nil")
    ELSE LET n == cfg.v
             static == ~n.UseDHCP /\ n.IPAddress # "" /\ n.Gateway # "" /\ n.Subnet # ""
             commands ==
                 TextCommand("Hostname", n.Hostname)
                 \o (IF n.UseDHCP THEN <<"IPAddress1 0.0.0.0">>
                     ELSE IF static
                     THEN <<"IPAddress1 " \o n.IPAddress, "IPAddress2 " \o n.Gateway,
                            "IPAddress3 " \o n.Subnet>>
                     ELSE << >>)
                 \o TextCommand("IPAddress4", n.DNSServer)
                 \o (IF n.SSID1 # ""
                     THEN <<"SSId1 " \o n.SSID1>> \o TextCommand("Password1", n.Password1)
                     ELSE << >>)
                 \o (IF n.SSID2 # ""
                     THEN <<"SSId2 " \o n.SSID2>> \o TextCommand("Password2", n.Password2)
                     ELSE << >>)
         IN IF Len(n.Hostname) > 32
            THEN InvalidCommand("hostname cannot exceed 32 characters")
            ELSE IF static /\ ~ParseIPOk(n.IPAddress) THEN InvalidCommand("invalid IP address")
            ELSE IF static /\ ~ParseIPOk(n.Gateway) THEN InvalidCommand("invalid gateway address")
            ELSE IF static /\ ~ParseIPOk(n.Subnet) THEN InvalidCommand("invalid subnet mask")
            ELSE IF Len(commands) = 0
            THEN InvalidCommand("no valid network configuration changes to apply")
            ELSE BacklogForErr(c, commands)

\* SetNetworkConfig; cfg is Nil or Some(NetworkConfig).  The checks run in the
\* order of the code, each returning before anything is sent.
SetNetworkConfig(c, cfg) ==
    IF cfg.isNil THEN InvalidCommand("network config cannot be nil")
    ELSE LET n == cfg.v
             static == ~n.UseDHCP /\ n.IPAddress # "" /\ n.Gateway # "" /\ n.Subnet # ""
             commands ==
                 TextCommand("Hostname", n.Hostname)
                 \o (IF n.UseDHCP THEN <<"IPAddress1 0.0.0.0">>
                     ELSE IF static
                     THEN <<"IPAddress1 " \o n.IPAddress, "IPAddress2 " \o n.Gateway,
                            "IPAddress3 " \o n.Subnet>>
                     ELSE << >>)
                 \o TextCommand("IPAddress4", n.DNSServer)
                 \o (IF n.SSID1 # ""
                     THEN <<"SSId1 " \o n.SSID1>> \o TextCommand("Password1", n.Password1)
                     ELSE << >>)
                 \o (IF n.SSID2 # ""
                     THEN <<"SSId2 " \o n.SSID2>> \o TextCommand("Password2", n.Password2)
                     ELSE << >>)
         IN IF Len(n.Hostname) > 32
            THEN InvalidCommand("hostname cannot exceed 32 characters")
            ELSE IF static /\ ~ParseIPOk(n.IPAddress) THEN InvalidCommand("invalid IP address")
            ELSE IF static /\ ~ParseIPOk(n.Gateway) THEN InvalidCommand("invalid gateway address")
            ELSE IF static /\ ~ParseIPOk(n.Subnet) THEN InvalidCommand("invalid subnet mask")
            ELSE IF n.DNSServer # "" /\ ~ParseIPOk(n.DNSServer)
            THEN InvalidCommand("invalid DNS server address")
            ELSE IF Len(commands) = 0
            THEN InvalidCommand("no valid network configuration changes to apply")
            ELSE BacklogForErr(c, commands)

(***************************************************************************)
(* State                                                                    *)
(***************************************************************************)

VARIABLES
    client,     \* the Client: baseURL, httpClient (which one), username, password, debug
    pc,         \* "idle": no call; "inflight": inside httpClient.Do; "done": returned
    call,       \* the operation called and its arguments
    plan,       \* what the call decided before its request went out
    ctxErr,     \* ctx.Err() of the call's context: "nil", "Canceled", "DeadlineExceeded"
    sent,       \* the URLs handed to httpClient.Do during the call, in order
    outcome,    \* what httpClient.Do and the body read produced
    exec,       \* what ExecuteCommand / ExecuteBacklog returned to the facade
    ret         \* what the call returned to its caller (while GetMQTTConfig
                \* is at its second request: what GetMQTTInfo returned to it)

vars == <<client, pc, call, plan, ctxErr, sent, outcome, exec, ret>>

Clients ==
    { [baseURL |-> "http://192.168.1.100", httpClient |-> "default",
       username |-> "", password |-> "", debug |-> FALSE],
      [baseURL |-> "https://tasmota.local:8443", httpClient |-> "custom",
       username |-> "admin", password |-> "p&s=1", debug |-> TRUE] }

NoCall == [op |-> "none"]
NoPlan ==
    [t |-> "none", err |-> NilError, url |-> "", post |-> "", arg |-> "", held |-> Nil]
NoOutcome == [t |-> "none"]
NotCalled == [called |-> FALSE, raw |-> Nil, err |-> NilError]
NoRet == [err |-> NilError, val |-> Nil]

Init ==
    /\ client \in Clients
    /\ pc = "idle"
    /\ call = NoCall
    /\ plan = NoPlan
    /\ ctxErr = "nil"
    /\ sent = << >>
    /\ outcome = NoOutcome
    /\ exec = NotCalled
    /\ ret = NoRet

\* a call of an operation: everything the Go code does before it either
\* returns or blocks in httpClient.Do.  An error the executor returns before
\* any I/O reaches the caller as it is: the facades return (nil, err) on it.
Invoke(callRec, p) ==
    /\ pc = "idle"
    /\ call' = callRec
    /\ plan' = p
    /\ ctxErr' = "nil"
    /\ outcome' = NoOutcome
    /\ UNCHANGED client
    /\ IF p.t = "send"
       THEN /\ pc' = "inflight"
            /\ sent' = <<p.url>>
            /\ exec' = NotCalled
            /\ ret' = NoRet
       ELSE IF p.t = "execfail"
       THEN /\ pc' = "done"
            /\ sent' = << >>
            /\ exec' = [called |-> TRUE, raw |-> Nil, err |-> p.err]
            /\ ret' = [err |-> p.err, val |-> Nil]
       ELSE /\ pc' = "done"
            /\ sent' = << >>
            /\ exec' = NotCalled
            /\ ret' = [err |-> p.err, val |-> Nil]

\* a completion that sends the request once more when the first try failed
Complete_Retry(o) ==
    /\ pc = "inflight"
    /\ outcome' = o
    /\ IF Len(sent) < 2 /\ (o.t = "error" \/ o.status # StatusOK)
       THEN /\ sent' = sent \o <<plan.url>>
            /\ UNCHANGED <<pc, exec, ret>>
       ELSE /\ exec' = ExecuteCommandReturn(do(client, ctxErr, o))
            /\ ret' = Finish(plan, exec')
            /\ pc' = "done"
            /\ sent' = sent
    /\ UNCHANGED <<client, call, plan, ctxErr>>

\* httpClient.Do and the body read are over: do classifies, ExecuteCommand
\* validates, the facade finishes.  GetMQTTConfig, once GetMQTTInfo has
\* succeeded, goes on to GetDeviceInfo with the same context; httpClient.Do
\* refuses a request whose context is already done (plan.t = "refused").
Complete(o) ==
    /\ pc = "inflight"
    /\ plan.t = "refused" => o = [t |-> "error", cause |-> "context"]
    /\ outcome' = o
    /\ exec' = ExecuteCommandReturn(do(client, ctxErr, o))
    /\ ret' = Finish(plan, exec')
    /\ IF plan.post = "mqttInfo" /\ ret'.err = NilError
       THEN /\ plan' = [Then(GetDeviceInfo(client), "mqttConfig", "Status")
                           EXCEPT !.held = ret'.val,
                                  !.t = IF ctxErr # "nil" THEN "refused" ELSE @]
            /\ sent' = Append(sent, plan'.url)
            /\ pc' = "inflight"
       ELSE /\ pc' = "done"
            /\ UNCHANGED <<plan, sent>>
    /\ UNCHANGED <<client, call, ctxErr>>

\* what do has printed during the call when c.debug is set: the request line
\* ahead of httpClient.Do, the status and body lines once the body was read
DebugLog ==
    IF ~client.debug THEN << >>
    ELSE [i \in 1..Len(sent) |-> "DEBUG: GET " \o sent[i] \o "\n"]
         \o (IF outcome.t = "response" /\ outcome.read = "ok"
             THEN <<"DEBUG: Response status: " \o Itoa(outcome.status) \o "\n",
                    "DEBUG: Response body: " \o outcome.body \o "\n">>
             ELSE << >>)

(***************************************************************************)
(* The environment: the caller's context and the device                     *)
(***************************************************************************)

\* the caller cancels the context while the request is outstanding
CtxCancel ==
    /\ pc = "inflight"
    /\ ctxErr = "nil"
    /\ ctxErr' = "Canceled"
    /\ UNCHANGED <<client, pc, call, plan, sent, outcome, exec, ret>>

\* the context's deadline passes while the request is outstanding
CtxDeadline ==
    /\ pc = "inflight"
    /\ ctxErr = "nil"
    /\ ctxErr' = "DeadlineExceeded"
    /\ UNCHANGED <<client, pc, call, plan, sent, outcome, exec, ret>>

\* the causes for which httpClient.Do or the body read may fail; "context"
\* needs a context that is done
FailCauses == {"context", "http.Client.Timeout", "ECONNREFUSED"}

HTTPDoError ==
    \E cause \in FailCauses :
        /\ cause = "context" => ctxErr # "nil"
        /\ Complete([t |-> "error", cause |-> cause])

Bodies ==
    {"{}", "{\"POWER\":\"ON\"}", "{\"POWER1\":\"ON\"}", "{\"POWER8\":\"ON\"}",
     "{\"POWER1\":\"off\"}", "{\"POWER\":1}", "", " {\"POWER\":\"ON\"}\n",
     "<html>Error</html>", "{\"POWER\":",
     "{\"Status\":{\"Module\":1,\"DeviceName\":\"Plug\",\"Topic\":\"plug\"}}",
     "{\"StatusMQT\":{\"MqttHost\":\"broker\",\"MqttPort\":1883,\"MqttCount\":1}}",
     "{\"StatusMQT\":{\"MqttHost\":\"broker\",\"MqttPort\":1883,\"MqttCount\":0}}",
     "{\"StatusMQT\":{\"MqttHost\":\"\",\"MqttPort\":1883,\"MqttCount\":4}}"}

Responses ==
    ({StatusOK} \X Bodies) \cup ({204, StatusUnauthorized, 404, 500} \X {"{}", "Unauthorized"})

HTTPResponse ==
    \E r \in Responses :
        Complete([t |-> "response", status |-> r[1], body |-> r[2], read |-> "ok"])

\* the headers arrived, reading the body failed
HTTPReadError ==
    \E cause \in {"context", "ECONNRESET"}, status \in {StatusOK, 500} :
        /\ cause = "context" => ctxErr # "nil"
        /\ Complete([t |-> "response", status |-> status, body |-> "", read |-> cause])

\* a return that clears the credentials of the Client after a failed call
Return_DropsAuth ==
    /\ pc = "done"
    /\ pc' = "idle"
    /\ client' = IF ret.err # NilError
                 THEN [client EXCEPT !.username = "", !.password = ""]
                 ELSE client
    /\ call' = NoCall
    /\ plan' = NoPlan
    /\ ctxErr' = "nil"
    /\ sent' = << >>
    /\ outcome' = NoOutcome
    /\ exec' = NotCalled
    /\ ret' = NoRet

\* the caller takes the result; the next call starts from scratch
Return ==
    /\ pc = "done"
    /\ pc' = "idle"
    /\ call' = NoCall
    /\ plan' = NoPlan
    /\ ctxErr' = "nil"
    /\ sent' = << >>
    /\ outcome' = NoOutcome
    /\ exec' = NotCalled
    /\ ret' = NoRet
    /\ UNCHANGED client

(***************************************************************************)
(* Calls of the executor and the batcher                                    *)
(***************************************************************************)

MaxPattern == 2
MaxShort == 3
MaxOver == 1

CommandPool == {"P ON", " S 5\t", "", "  ", "a;b"}

Cycle(pat, n) == [i \in 1..n |-> pat[((i - 1) % Len(pat)) + 1]]

BacklogLengths ==
    (0..MaxShort) \cup ((MaxBacklogCommands - 1)..(MaxBacklogCommands + MaxOver))

BacklogInputs ==
    {Cycle(pat, n) : pat \in UNION {[1..k -> CommandPool] : k \in 1..MaxPattern},
                     n \in BacklogLengths}

CommandInputs == {"", "Power", "Power1 ON", "Status 0", " "}

CallExecuteCommand ==
    \E command \in CommandInputs :
        Invoke([op |-> "ExecuteCommand", command |-> command],
               ExecuteCommand(client, command))

CallExecuteBacklog ==
    \E commands \in BacklogInputs :
        Invoke([op |-> "ExecuteBacklog", commands |-> commands],
               ExecuteBacklog(client, commands))

(***************************************************************************)
(* Calls of the facades                                                     *)
(***************************************************************************)

Margin == 1

\* the values at and next to both ends of the range lo..hi
Around(lo, hi) == ((lo - Margin)..(lo + Margin)) \cup ((hi - Margin)..(hi + Margin))

PowerStates == {"ON", "OFF", "TOGGLE", "BLINK"}

Facade(op, args, p) == Invoke([op |-> op, args |-> args], p)

CallPower ==
    \/ \E state \in PowerStates :
          Facade("Power", <<state>>, Power(client, state))
    \/ \E relayNum \in Around(1, 8), state \in PowerStates :
          Facade("PowerN", <<relayNum, state>>, PowerN(client, relayNum, state))
    \/ Facade("GetPower", << >>, GetPower(client))
    \/ \E relayNum \in Around(1, 8) :
          Facade("GetPowerN", <<relayNum>>, GetPowerN(client, relayNum))
    \/ \E relayNum \in Around(0, 8) :
          Facade("SetPowerOn", <<relayNum>>, SetPowerOn(client, relayNum))

CallStatus ==
    \/ \E category \in Around(0, 11) :
          Facade("Status", <<category>>, Status(client, category))
    \/ Facade("GetDeviceInfo", << >>, GetDeviceInfo(client))
    \/ Facade("GetFirmwareInfo", << >>, GetFirmwareInfo(client))
    \/ Facade("GetNetworkInfo", << >>, GetNetworkInfo(client))
    \/ Facade("GetMQTTInfo", << >>, GetMQTTInfo(client))
    \/ Facade("GetSensorData", << >>, GetSensorData(client))
    \/ Facade("GetState", << >>, GetState(client))

Names == {"", "Plug"}

ZeroDeviceConfig ==
    [FriendlyName |-> << >>, DeviceName |-> "", PowerOnState |-> 0, LedState |-> 0,
     Sleep |-> 0, ButtonRetain |-> 0, SwitchRetain |-> 0, SensorRetain |-> 0,
     PowerRetain |-> 0]

OutOfRangeDeviceConfig ==
    [ZeroDeviceConfig EXCEPT !.PowerOnState = 6, !.LedState = 9, !.Sleep = 251,
                             !.ButtonRetain = 2, !.SwitchRetain = 2,
                             !.SensorRetain = -1, !.PowerRetain = 2]

DeviceConfigs ==
    { Nil,
      Some(ZeroDeviceConfig),
      Some(OutOfRangeDeviceConfig),
      Some([OutOfRangeDeviceConfig EXCEPT !.DeviceName = "Plug", !.Sleep = 250]),
      Some([ZeroDeviceConfig EXCEPT !.DeviceName = "Plug",
                                    !.FriendlyName = <<"Lamp", "", "Fan">>,
                                    !.PowerOnState = 3, !.LedState = 9]),
      Some([ZeroDeviceConfig EXCEPT !.DeviceName = "TestDevice",
                                    !.FriendlyName = <<"Lamp", "", "Fan">>,
                                    !.PowerOnState = 3, !.LedState = 1]) }

\* the dynamic types a caller may hand to SetOption
OptionValues ==
    [bool |-> TRUE, int |-> 1, string |-> "ON", float64 |-> 1]

CallConfig ==
    \/ \E name \in Names :
          Facade("SetDeviceName", <<name>>, SetDeviceName(client, name))
    \/ \E index \in Around(1, 8), name \in Names :
          Facade("SetFriendlyNameN", <<index, name>>,
                 SetFriendlyNameN(client, index, name))
    \/ \E state \in Around(0, 5) :
          Facade("SetPowerOnState", <<state>>, SetPowerOnState(client, state))
    \/ \E state \in Around(0, 8) :
          Facade("SetLedState", <<state>>, SetLedState(client, state))
    \/ \E duration \in Around(0, 250) :
          Facade("SetSleep", <<duration>>, SetSleep(client, duration))
    \/ \E cfg \in DeviceConfigs :
          Facade("ApplyConfig", <<cfg>>, ApplyConfig(client, cfg))
    \/ \E reason \in Around(1, 99) :
          Facade("Restart", <<reason>>, Restart(client, reason))
    \/ \E level \in Around(1, 6) \cup Around(99, 99) :
          Facade("Reset", <<level>>, Reset(client, level))
    \/ \E option \in Around(0, 3), type \in DOMAIN OptionValues :
          LET value == [type |-> type, v |-> OptionValues[type]] IN
          Facade("SetOption", <<option, value>>, SetOption(client, option, value))
    \/ \E seconds \in Around(10, 3600) :
          Facade("SetTelePeriod", <<seconds>>, SetTelePeriod(client, seconds))

ZeroMQTTConfig ==
    [Host |-> "", Port |-> 0, User |-> "", Password |-> "", Client |-> "",
     Topic |-> "", FullTopic |-> "", GroupTopic |-> "", Retain |-> FALSE,
     TelePeriod |-> 0, Prefix1 |-> "", Prefix2 |-> "", Prefix3 |-> ""]

MQTTConfigs ==
    { Nil,
      Some(ZeroMQTTConfig),
      Some([ZeroMQTTConfig EXCEPT !.Port = 70000, !.TelePeriod = 5]),
      Some([ZeroMQTTConfig EXCEPT !.Host = "broker", !.Port = 70000]),
      Some([ZeroMQTTConfig EXCEPT !.Host = "broker", !.Port = 1883, !.User = "u",
                                  !.Password = "p;w", !.Topic = "plug",
                                  !.Prefix3 = "tele", !.Retain = TRUE,
                                  !.TelePeriod = 300]),
      Some([Host |-> "broker", Port |-> 65535, User |-> "u", Password |-> "pw",
            Client |-> "c1", Topic |-> "plug", FullTopic |-> "%prefix%/%topic%/",
            GroupTopic |-> "plugs", Retain |-> TRUE, TelePeriod |-> 3600,
            Prefix1 |-> "cmnd", Prefix2 |-> "stat", Prefix3 |-> "tele"]) }

CallMQTT ==
    \/ \E host \in {"", "broker.local"} :
          Facade("SetMQTTHost", <<host>>, SetMQTTHost(client, host))
    \/ \E port \in Around(1, 65535) :
          Facade("SetMQTTPort", <<port>>, SetMQTTPort(client, port))
    \/ \E enable \in BOOLEAN :
          Facade("EnableMQTT", <<enable>>, EnableMQTT(client, enable))
    \/ \E cfg \in MQTTConfigs :
          Facade("SetMQTTConfig", <<cfg>>, SetMQTTConfig(client, cfg))
    \/ Facade("GetMQTTConfig", << >>, GetMQTTConfig(client))
    \/ Facade("TestMQTTConnection", << >>, TestMQTTConnection(client))

IPTexts == {"192.168.1.50", "256.1.1.1", "", "gateway", "1.2.3", "01.2.3.4"}

ZeroNetworkConfig ==
    [Hostname |-> "", IPAddress |-> "", Gateway |-> "", Subnet |-> "",
     DNSServer |-> "", SSID1 |-> "", SSID2 |-> "", Password1 |-> "",
     Password2 |-> "", UseDHCP |-> FALSE]

StaticNetworkConfig ==
    [ZeroNetworkConfig EXCEPT !.Hostname = "plug", !.IPAddress = "192.168.1.50",
                              !.Gateway = "192.168.1.1", !.Subnet = "255.255.255.0",
                              !.DNSServer = "8.8.8.8", !.SSID1 = "home",
                              !.Password1 = "secret"]

NetworkConfigs ==
    { Nil,
      Some(ZeroNetworkConfig),
      Some(StaticNetworkConfig),
      Some([StaticNetworkConfig EXCEPT !.Gateway = "192.168.1"]),
      Some([StaticNetworkConfig EXCEPT !.DNSServer = "dns"]),
      Some([StaticNetworkConfig EXCEPT !.Hostname = "a-hostname-of-33-characters-here-"]),
      Some([StaticNetworkConfig EXCEPT !.UseDHCP = TRUE, !.IPAddress = "bad"]),
      Some([ZeroNetworkConfig EXCEPT !.IPAddress = "192.168.1.50"]) }

CallNetwork ==
    \/ \E hostname \in {"", "plug", "a-hostname-of-32-characters-here",
                         "a-hostname-of-33-characters-here-"} :
          Facade("SetHostname", <<hostname>>, SetHostname(client, hostname))
    \/ \E ip \in IPTexts, gateway \in {"192.168.1.1", "192.168.1"},
          subnet \in {"255.255.255.0", "/24"} :
          Facade("SetStaticIP", <<ip, gateway, subnet>>,
                 SetStaticIP(client, ip, gateway, subnet))
    \/ \E enable \in BOOLEAN :
          Facade("EnableDHCP", <<enable>>, EnableDHCP(client, enable))
    \/ \E dnsServer \in IPTexts :
          Facade("SetDNSServer", <<dnsServer>>, SetDNSServer(client, dnsServer))
    \/ \E cfg \in NetworkConfigs :
          Facade("SetNetworkConfig", <<cfg>>, SetNetworkConfig(client, cfg))

Next ==
    \/ CallExecuteCommand
    \/ CallExecuteBacklog
    \/ CallPower
    \/ CallStatus
    \/ CallConfig
    \/ CallMQTT
    \/ CallNetwork
    \/ CtxCancel
    \/ CtxDeadline
    \/ HTTPDoError
    \/ HTTPResponse
    \/ HTTPReadError
    \/ Return

Spec == Init /\ [][Next]_vars

(***************************************************************************)
(* Callers that build error values and classify them                        *)
(***************************************************************************)

MaxChain == 3

\* the links a caller can put into an error: a library Error of each kind
\* (NewError is exported) and an error of another package
ErrorLinks ==
    {[lib |-> TRUE, Type |-> errType, Message |-> "m"] : errType \in ErrorTypes}
    \cup {[lib |-> FALSE, name |-> "fmt.wrapError"]}

ErrorChains == UNION {[1..n -> ErrorLinks] : n \in 0..MaxChain}

\* the six predicates applied to err, indexed by kind + 1
Classify(err) ==
    <<IsNetworkError(err), IsAuthError(err), IsCommandError(err),
      IsParseError(err), IsTimeoutError(err), IsDeviceError(err)>>

CallClassify ==
    \E err \in ErrorChains :
        /\ pc = "idle"
        /\ pc' = "done"
        /\ call' = [op |-> "Classify", err |-> err]
        /\ ret' = [err |-> NilError, val |-> Some(Classify(err))]
        /\ UNCHANGED <<client, plan, ctxErr, sent, outcome, exec>>

NextErrors ==
    \/ CallClassify
    \/ Return

SpecErrors == Init /\ [][NextErrors]_vars

(***************************************************************************)
(* Callers of the URL encoder: every combination of an empty and a          *)
(* non-empty username and password, commands with the characters a query    *)
(* string gives a meaning to                                                *)
(***************************************************************************)

InitURL ==
    /\ client \in [baseURL : {"http://192.168.1.100", "https://tasmota.local:8443"},
                   httpClient : {"default"},
                   username : {"", "admin", "a b+c"},
                   password : {"", "p&s=1", "%41#"},
                   debug : {FALSE}]
    /\ pc = "idle"
    /\ call = NoCall
    /\ plan = NoPlan
    /\ ctxErr = "nil"
    /\ sent = << >>
    /\ outcome = NoOutcome
    /\ exec = NotCalled
    /\ ret = NoRet

CallBuildURL ==
    \E command \in {"", "Power", "Power1 ON", "Backlog a; b", "a&b=c", "100%+1",
                    "x+y z", "cmnd=1&user=u", "?#/", "%41%zz", " "} :
        /\ pc = "idle"
        /\ pc' = "done"
        /\ call' = [op |-> "buildURL", command |-> command]
        /\ ret' = [err |-> buildURL(client, command).err,
                   val |-> IF buildURL(client, command).err = NilError
                           THEN Some(buildURL(client, command).url) ELSE Nil]
        /\ UNCHANGED <<client, plan, ctxErr, sent, outcome, exec>>

NextURL ==
    \/ CallBuildURL
    \/ Return

SpecURL == InitURL /\ [][NextURL]_vars

(***************************************************************************)
(* Goroutines that share one Client.  Each caller has its own call, plan    *)
(* (its local urlStr), context, outcome and results: the variables are      *)
(* functions of the caller here.  The Client and the http.Client are        *)
(* shared; sent lists the requests handed to httpClient.Do in the order     *)
(* they were handed over, each with the caller it belongs to, and           *)
(* httpClient.Do gives each caller the response to its own request.         *)
(***************************************************************************)

Callers == {"g1", "g2"}

InitConcurrent ==
    /\ client \in Clients
    /\ pc = [g \in Callers |-> "idle"]
    /\ call = [g \in Callers |-> NoCall]
    /\ plan = [g \in Callers |-> NoPlan]
    /\ ctxErr = [g \in Callers |-> "nil"]
    /\ sent = << >>
    /\ outcome = [g \in Callers |-> NoOutcome]
    /\ exec = [g \in Callers |-> NotCalled]
    /\ ret = [g \in Callers |-> NoRet]

\* caller g starts an operation: the checks and buildURL, up to the call of do
GoCall(g) ==
    \E c \in {[op |-> "ExecuteCommand", args |-> <<command>>] :
                  command \in {"", "Power1 ON", "Status 0"}}
              \cup {[op |-> "GetPowerN", args |-> <<relayNum>>] : relayNum \in {2, 9}} :
        LET Start(p) ==
                /\ plan' = [plan EXCEPT ![g] = p]
                /\ pc' = [pc EXCEPT ![g] = IF p.t = "send" THEN "built" ELSE "done"]
                /\ exec' = [exec EXCEPT ![g] =
                               IF p.t = "execfail"
                               THEN [called |-> TRUE, raw |-> Nil, err |-> p.err]
                               ELSE NotCalled]
                /\ ret' = [ret EXCEPT ![g] =
                              IF p.t = "send" THEN NoRet ELSE [err |-> p.err, val |-> Nil]]
        IN /\ pc[g] = "idle"
           /\ call' = [call EXCEPT ![g] = c]
           /\ Start(IF c.op = "ExecuteCommand"
                    THEN ExecuteCommand(client, c.args[1])
                    ELSE GetPowerN(client, c.args[1]))
           /\ UNCHANGED <<client, ctxErr, sent, outcome>>

\* do hands a request made from a URL that some caller built to httpClient.Do
GoSend_SharedURL(g) ==
    /\ pc[g] = "built"
    /\ \E h \in Callers :
           /\ plan[h].t = "send"
           /\ sent' = Append(sent, [by |-> g, url |-> plan[h].url])
    /\ pc' = [pc EXCEPT ![g] = "inflight"]
    /\ UNCHANGED <<client, call, plan, ctxErr, outcome, exec, ret>>

\* do hands the request made from the caller's urlStr to httpClient.Do
GoSend(g) ==
    /\ pc[g] = "built"
    /\ sent' = Append(sent, [by |-> g, url |-> plan[g].url])
    /\ pc' = [pc EXCEPT ![g] = "inflight"]
    /\ UNCHANGED <<client, call, plan, ctxErr, outcome, exec, ret>>

\* the caller's own context is cancelled while its request is outstanding
GoCtxCancel(g) ==
    /\ pc[g] = "inflight"
    /\ ctxErr[g] = "nil"
    /\ ctxErr' = [ctxErr EXCEPT ![g] = "Canceled"]
    /\ UNCHANGED <<client, pc, call, plan, sent, outcome, exec, ret>>

\* httpClient.Do returns to caller g with the outcome of g's request
GoComplete(g) ==
    \E o \in {[t |-> "error", cause |-> cause] : cause \in {"context", "ECONNREFUSED"}}
              \cup {[t |-> "response", status |-> r[1], body |-> r[2], read |-> "ok"] :
                       r \in {<<StatusOK, "{\"POWER1\":\"ON\"}">>,
                              <<StatusOK, "{\"POWER2\":\"OFF\"}">>,
                              <<StatusOK, "<html>Error</html>">>,
                              <<StatusUnauthorized, "Unauthorized">>}} :
        /\ pc[g] = "inflight"
        /\ (o.t = "error" /\ o.cause = "context") => ctxErr[g] # "nil"
        /\ outcome' = [outcome EXCEPT ![g] = o]
        /\ exec' = [exec EXCEPT ![g] = ExecuteCommandReturn(do(client, ctxErr[g], o))]
        /\ ret' = [ret EXCEPT ![g] = Finish(plan[g], exec'[g])]
        /\ pc' = [pc EXCEPT ![g] = "done"]
        /\ UNCHANGED <<client, call, plan, ctxErr, sent>>

\* caller g takes its result
GoReturn(g) ==
    /\ pc[g] = "done"
    /\ pc' = [pc EXCEPT ![g] = "idle"]
    /\ call' = [call EXCEPT ![g] = NoCall]
    /\ plan' = [plan EXCEPT ![g] = NoPlan]
    /\ ctxErr' = [ctxErr EXCEPT ![g] = "nil"]
    /\ sent' = SelectSeq(sent, LAMBDA r : r.by # g)
    /\ outcome' = [outcome EXCEPT ![g] = NoOutcome]
    /\ exec' = [exec EXCEPT ![g] = NotCalled]
    /\ ret' = [ret EXCEPT ![g] = NoRet]
    /\ UNCHANGED client

NextConcurrent ==
    \E g \in Callers :
        \/ GoCall(g)
        \/ GoSend(g)
        \/ GoCtxCancel(g)
        \/ GoComplete(g)
        \/ GoReturn(g)

SpecConcurrent == InitConcurrent /\ [][NextConcurrent]_vars


(***************************************************************************)
(* Construction (client.go): NewClient, its options, normalizeHost.  An     *)
(* http.Client is an object the Client points to: objects maps the name of  *)
(* every http.Client in reach to its fields, so that two holders of one     *)
(* object see each other's writes.                                          *)
(***************************************************************************)

DefaultResponseTimeout == 20

MaxOptions == 2

\* normalizeHost.  url.Parse of "http[s]://rest": the authority runs up to
\* the first '/', '?' or '#'; a character that may not stand in a host name
\* or a port that is not a number is an error; the hosts used carry no
\* userinfo and no IPv6 literal.
normalizeHost(host) ==
    LET keep == {i \in 1..Len(host) : CharAt(host, i) # "/"}
        trimmed == IF keep = {} THEN ""
                   ELSE SubSeq(host, 1, CHOOSE i \in keep : \A j \in keep : j <= i)
        HasPrefix(str, prefix) ==
            Len(str) >= Len(prefix) /\ SubSeq(str, 1, Len(prefix)) = prefix
        withScheme == IF ~HasPrefix(trimmed, "http://") /\ ~HasPrefix(trimmed, "https://")
                      THEN "http://" \o trimmed
                      ELSE trimmed
        start == IndexFrom(withScheme, "/", 1) + 2
        stops == {i \in start..Len(withScheme) : CharAt(withScheme, i) \in {"/", "?", "#"}}
        uHost == SubSeq(withScheme, start,
                        IF stops = {} THEN Len(withScheme)
                        ELSE (CHOOSE i \in stops : \A j \in stops : i <= j) - 1)
        colons == {i \in 1..Len(uHost) : CharAt(uHost, i) = ":"}
        port == IF colons = {} THEN ""
                ELSE SubSeq(uHost, (CHOOSE i \in colons : \A j \in colons : j <= i) + 1,
                            Len(uHost))
        parseFails ==
            \/ \E i \in 1..Len(uHost) : CharAt(uHost, i) \in {" ", "<", ">", "\t", "\""}
            \/ \E i \in 1..Len(port) : CharAt(port, i) \notin DigitChars
    IN IF parseFails THEN [url |-> "", err |-> ForeignError("url.Error", NilError)]
       ELSE IF uHost = ""
       THEN [url |-> "", err |-> ForeignError("errors.errorString", NilError)]
       ELSE [url |-> withScheme, err |-> NilError]

\* the options of opts applied in order to st = [client, objects]
\* options of which WithTimeout always writes to the http.Client NewClient made
RECURSIVE ApplyOptions_TimeoutOnDefault(_, _)
ApplyOptions_TimeoutOnDefault(st, opts) ==
    IF opts = << >> THEN st
    ELSE LET o == Head(opts)
             c == st.client
         IN ApplyOptions_TimeoutOnDefault(
                CASE o.opt = "WithAuth" ->
                         [st EXCEPT !.client = [c EXCEPT !.username = o.username,
                                                         !.password = o.password]]
                  [] o.opt = "WithTimeout" ->
                         [st EXCEPT !.objects = [st.objects EXCEPT
                                                    !["default"].Timeout = o.timeout]]
                  [] o.opt = "WithHTTPClient" ->
                         [st EXCEPT !.client = [c EXCEPT !.httpClient = o.client]]
                  [] o.opt = "WithDebug" ->
                         [st EXCEPT !.client = [c EXCEPT !.debug = o.debug]],
                Tail(opts))

RECURSIVE ApplyOptions(_, _)
ApplyOptions(st, opts) ==
    IF opts = << >> THEN st
    ELSE LET o == Head(opts)
             c == st.client
         IN ApplyOptions(
                CASE o.opt = "WithAuth" ->
                         [st EXCEPT !.client = [c EXCEPT !.username = o.username,
                                                         !.password = o.password]]
                  [] o.opt = "WithTimeout" ->
                         [st EXCEPT !.objects = [st.objects EXCEPT
                                                    ![c.httpClient].Timeout = o.timeout]]
                  [] o.opt = "WithHTTPClient" ->
                         [st EXCEPT !.client = [c EXCEPT !.httpClient = o.client]]
                  [] o.opt = "WithDebug" ->
                         [st EXCEPT !.client = [c EXCEPT !.debug = o.debug]],
                Tail(opts))

\* NewClient; objects are the http.Client objects the caller holds.  The
\* result carries the objects as the call has left them.
NewClient(host, opts, objects) ==
    IF host = ""
    THEN [err |-> NewError(ErrorTypeNetwork, "host cannot be empty", NilError),
          val |-> Nil, objects |-> objects]
    ELSE IF normalizeHost(host).err # NilError
    THEN [err |-> NewError(ErrorTypeNetwork, "invalid host", normalizeHost(host).err),
          val |-> Nil, objects |-> objects]
    ELSE LET Made(st) == [err |-> NilError, val |-> Some(st.client), objects |-> st.objects]
         IN Made(ApplyOptions(
                [client |-> [baseURL |-> normalizeHost(host).url, httpClient |-> "default",
                             username |-> "", password |-> "", debug |-> FALSE],
                 objects |-> [id \in DOMAIN objects \cup {"default"} |->
                                 IF id = "default"
                                 THEN [Timeout |-> DefaultResponseTimeout]
                                 ELSE objects[id]]],
                opts))

\* the caller holds one http.Client of its own, "custom", with a timeout of 5
CallNewClient ==
    \E host \in {"", "/", "192.168.1.100", "tasmota.local:8080/", "tasmota.local//",
                 "http://192.168.1.100", "https://tasmota.local:8443/", "http://",
                 "https://", "http:///cm", "bad host", "tasmota.local:http"},
       opts \in UNION {[1..n -> {[opt |-> "WithAuth", username |-> "admin", password |-> "pw"],
                                 [opt |-> "WithTimeout", timeout |-> 3],
                                 [opt |-> "WithHTTPClient", client |-> "custom"],
                                 [opt |-> "WithDebug", debug |-> TRUE]}] :
                          n \in 0..MaxOptions} :
        /\ pc = "idle"
        /\ pc' = "done"
        /\ call' = [op |-> "NewClient", args |-> <<host, opts>>]
        /\ ret' = NewClient(host, opts, [id \in {"custom"} |-> [Timeout |-> 5]])
        /\ UNCHANGED <<client, plan, ctxErr, sent, outcome, exec>>

NextNew ==
    \/ CallNewClient
    \/ Return

SpecNew == Init /\ [][NextNew]_vars

(***************************************************************************)
(* Properties                                                               *)
(***************************************************************************)

IsBacklogCall == call.op = "ExecuteBacklog"

TrimmedInputs == [i \in 1..Len(call.commands) |-> TrimSpace(call.commands[i])]

AllNonBlank(commands) == \A i \in 1..Len(commands) : TrimSpace(commands[i]) # ""
AllBlank(commands) == \A i \in 1..Len(commands) : TrimSpace(commands[i]) = ""

\* the command a request carries, as the device reads it from the URL
CmndOf(urlStr) == Param(urlStr, "cmnd")

\* C1: a list of 1 to 30 commands, none blank after trimming, makes
\* ExecuteBacklog send exactly one request, whose cmnd is "Backlog " followed
\* by the trimmed commands joined with "; " in the order given.
C1_BacklogSendsOneJoinedRequest ==
    (IsBacklogCall /\ Len(call.commands) \in 1..30 /\ AllNonBlank(call.commands))
        => /\ Len(sent) = 1
           /\ CmndOf(sent[1]) = "Backlog " \o Join(TrimmedInputs, "; ")

C1_Witness ==
    /\ pc = "done"
    /\ IsBacklogCall
    /\ Len(call.commands) = 30
    /\ AllNonBlank(call.commands)
    /\ \E i \in 1..30 : TrimmedInputs[i] # call.commands[i]
    /\ Len(sent) = 1
    /\ ret.err = NilError

\* C2: ExecuteBacklog fails with a Command error and sends nothing when the
\* list is empty, when it holds more than 30 commands (blank ones counted),
\* and when every command is blank after trimming.
C2_BacklogRejectsWithoutRequest ==
    (IsBacklogCall /\ (\/ Len(call.commands) = 0
                        \/ Len(call.commands) > 30
                        \/ AllBlank(call.commands)))
        => /\ pc = "done"
           /\ IsCommandError(ret.err)
           /\ sent = << >>

C2_Witness ==
    /\ pc = "done"
    /\ IsBacklogCall
    /\ Len(call.commands) = 31
    /\ Len(FilterCommands(call.commands)) \in 1..30
    /\ IsCommandError(ret.err)
    /\ sent = << >>

\* C3: ExecuteCommand("") fails with a Command error and performs no HTTP
\* request.
C3_EmptyCommandRejected ==
    (call.op = "ExecuteCommand" /\ call.command = "")
        => /\ pc = "done"
           /\ IsCommandError(ret.err)
           /\ ~IsNetworkError(ret.err)
           /\ sent = << >>

C3_Witness ==
    /\ pc = "done"
    /\ call.op = "ExecuteCommand"
    /\ call.command = ""
    /\ ret.val = Nil
    /\ IsCommandError(ret.err)

\* what the firmware's Backlog runs: the text after "Backlog " cut at every
\* ';', each piece trimmed
DeviceSubCommands(cmnd) ==
    LET pieces == Split(SubSeq(cmnd, Len("Backlog ") + 1, Len(cmnd)), ";")
    IN [i \in 1..Len(pieces) |-> TrimSpace(pieces[i])]

\* C4: the command of every Backlog request ExecuteBacklog sends, cut at the
\* ';' separator, is 1 to 30 non-empty sub-commands, each one of the caller's
\* trimmed commands: no input command is run as two sub-commands.
C4_SubCommandsAreTheInputs ==
    (IsBacklogCall /\ Len(sent) = 1)
        => LET subs == DeviceSubCommands(CmndOf(sent[1])) IN
           /\ Len(subs) \in 1..30
           /\ \A i \in 1..Len(subs) :
                /\ subs[i] # ""
                /\ \E j \in 1..Len(call.commands) : subs[i] = TrimmedInputs[j]
           /\ Len(subs) = Len(FilterCommands(call.commands))

\* C5: a completed HTTP exchange is classified by status and body: 401 is an
\* Auth error, any other status but 200 a Network error, 200 with a body that
\* is not valid JSON a Parse error, 200 with valid JSON a success.
C5_ResponseClassification ==
    (pc = "done" /\ outcome.t = "response" /\ outcome.read = "ok")
        => /\ outcome.status = 401 => IsAuthError(exec.err)
           /\ outcome.status \notin {200, 401} => IsNetworkError(exec.err)
           /\ (outcome.status = 200 /\ ~JSONValid(outcome.body))
                => IsParseError(exec.err)
           /\ (outcome.status = 200 /\ JSONValid(outcome.body))
                => (exec.err = NilError /\ ~exec.raw.isNil /\ JSONValid(exec.raw.v))

C5_Witness ==
    /\ pc = "done"
    /\ outcome.t = "response"
    /\ outcome.read = "ok"
    /\ outcome.status = 200
    /\ outcome.body = "<html>Error</html>"
    /\ IsParseError(exec.err)

\* httpClient.Do or the body read failed because the caller's context is done
ContextCaused ==
    \/ outcome.t = "error" /\ outcome.cause = "context"
    \/ outcome.t = "response" /\ outcome.read = "context"

\* C6: when the HTTP call fails because of the caller's context, the error
\* is a Timeout error exactly when the context's deadline was exceeded, and a
\* Network error when the context was cancelled otherwise.
C6_ContextFailureKind ==
    (pc = "done" /\ ContextCaused)
        => /\ IsTimeoutError(exec.err) <=> ctxErr = "DeadlineExceeded"
           /\ ctxErr = "Canceled" => IsNetworkError(exec.err)

IsFacadeCall == call.op \notin {"none", "ExecuteCommand", "ExecuteBacklog", "Classify"}

\* C7: when the ExecuteCommand or ExecuteBacklog call under a facade
\* operation fails with an error of kind K, the facade returns an error of
\* that kind K and of no other kind.
C7_FacadeKeepsErrorKind ==
    (pc = "done" /\ IsFacadeCall /\ exec.called /\ exec.err # NilError)
        => \A errType \in ErrorTypes :
               IsKind(ret.err, errType) <=> IsKind(exec.err, errType)

C7_Witness ==
    /\ pc = "done"
    /\ call.op = "GetDeviceInfo"
    /\ exec.called
    /\ IsAuthError(exec.err)
    /\ IsAuthError(ret.err)
    /\ ret.val = Nil

\* the position of the outermost library Error of a chain, 0 if there is none
FirstLibrary(err) ==
    IF \E i \in 1..Len(err) : err[i].lib
    THEN CHOOSE i \in 1..Len(err) : err[i].lib /\ \A j \in 1..(i - 1) : ~err[j].lib
    ELSE 0

\* C8 as stated: an error that is or wraps a library Error of kind K makes
\* the predicate of K true and the other five false.
C8_EveryWrappedKindDecides ==
    call.op = "Classify"
        => \A i \in 1..Len(call.err) :
               call.err[i].lib
                   => \A errType \in ErrorTypes :
                          ret.val.v[errType + 1] <=> (errType = call.err[i].Type)

\* C8: the outermost library Error in the chain of an error decides: the
\* predicate of its kind is true and the other five are false; for the nil
\* error and for a chain without a library Error all six are false.
C8_OutermostErrorDecides ==
    call.op = "Classify"
        => LET first == FirstLibrary(call.err) IN
           \A errType \in ErrorTypes :
               ret.val.v[errType + 1]
                   <=> (first # 0 /\ errType = call.err[first].Type)

C8_Witness ==
    /\ pc = "done"
    /\ call.op = "Classify"
    /\ Len(call.err) = 3
    /\ ~call.err[1].lib
    /\ call.err[2].lib /\ call.err[2].Type = ErrorTypeParse
    /\ call.err[3].lib /\ call.err[3].Type = ErrorTypeNetwork
    /\ ret.val.v = <<FALSE, FALSE, FALSE, TRUE, FALSE, FALSE>>

Arg(i) == call.args[i]

\* the rejections the facades document
ArgumentsRejected ==
    \/ call.op \in {"PowerN", "GetPowerN", "SetFriendlyNameN"} /\ Arg(1) \notin 1..8
    \/ call.op = "SetPowerOn" /\ Arg(1) \notin 0..8
    \/ call.op = "SetPowerOnState" /\ Arg(1) \notin 0..5
    \/ call.op = "SetLedState" /\ Arg(1) \notin 0..8
    \/ call.op = "SetSleep" /\ Arg(1) \notin 0..250
    \/ call.op = "SetTelePeriod" /\ Arg(1) \notin 10..3600
    \/ call.op = "SetMQTTPort" /\ Arg(1) \notin 1..65535
    \/ call.op \in {"SetDeviceName", "SetMQTTHost", "SetHostname"} /\ Arg(1) = ""
    \/ call.op = "SetFriendlyNameN" /\ Arg(2) = ""
    \/ call.op = "SetHostname" /\ Len(Arg(1)) > 32
    \/ call.op \in {"ApplyConfig", "SetMQTTConfig", "SetNetworkConfig"} /\ Arg(1).isNil
    \/ call.op = "SetStaticIP" /\ \E i \in 1..3 : ~ParseIPOk(Arg(i))
    \/ call.op = "SetDNSServer" /\ ~ParseIPOk(Arg(1))
    \/ call.op = "Restart" /\ Arg(1) \notin {1, 99}
    \/ call.op = "Reset" /\ Arg(1) \notin {1, 2, 3, 4, 5, 6, 99}
    \/ call.op = "SetOption" /\ (Arg(1) < 0 \/ Arg(2).type \notin {"bool", "int", "string"})
    \/ call.op = "EnableDHCP" /\ ~Arg(1)
    \/ call.op = "Status" /\ Arg(1) \notin 0..11

\* C9: a facade operation that rejects its arguments returns a Command error
\* and the call has sent no HTTP request.
C9_RejectionSendsNothing ==
    (IsFacadeCall /\ (plan.t = "invalid" \/ ArgumentsRejected))
        => /\ pc = "done"
           /\ IsCommandError(ret.err)
           /\ sent = << >>
           /\ ~exec.called

C9_Witness ==
    /\ pc = "done"
    /\ call.op = "SetStaticIP"
    /\ ParseIPOk(Arg(1))
    /\ ~ParseIPOk(Arg(2))
    /\ IsCommandError(ret.err)
    /\ sent = << >>

\* the documented closed ranges of the range-validated setters
DocumentedRange ==
    [SetSleep |-> <<0, 250>>, SetLedState |-> <<0, 8>>, SetPowerOnState |-> <<0, 5>>,
     SetTelePeriod |-> <<10, 3600>>, PowerN |-> <<1, 8>>, GetPowerN |-> <<1, 8>>,
     SetMQTTPort |-> <<1, 65535>>]

\* C10: a range-validated setter sends its request exactly when its argument
\* lies in the documented closed range, both ends included; outside it the
\* call is rejected with a Command error.
C10_SendsIffInRange ==
    (pc # "idle" /\ call.op \in DOMAIN DocumentedRange)
        => LET lo == DocumentedRange[call.op][1]
               hi == DocumentedRange[call.op][2]
           IN /\ Len(sent) = 1 <=> (lo <= Arg(1) /\ Arg(1) <= hi)
              /\ ~(lo <= Arg(1) /\ Arg(1) <= hi)
                    => (pc = "done" /\ IsCommandError(ret.err))

C10_Witness ==
    /\ pc = "done"
    /\ call.op = "SetMQTTPort"
    /\ Arg(1) = 65535
    /\ Len(sent) = 1
    /\ CmndOf(sent[1]) = "MqttPort 65535"
    /\ ret.err = NilError

\* a field of a composite config that lies outside the range its single
\* setter accepts
FieldOutOfRange ==
    \/ /\ call.op = "ApplyConfig"
       /\ ~Arg(1).isNil
       /\ \/ Arg(1).v.PowerOnState \notin 0..5
          \/ Arg(1).v.LedState \notin 0..8
          \/ Arg(1).v.Sleep \notin 0..250
    \/ /\ call.op = "SetMQTTConfig"
       /\ ~Arg(1).isNil
       /\ \/ Arg(1).v.Port \notin 0..65535
          \/ Arg(1).v.TelePeriod \notin ({0} \cup (10..3600))

\* C11: ApplyConfig and SetMQTTConfig called with a config that holds a field
\* outside the range of the corresponding single setter fail with a Command
\* error and send no request.
C11_CompositeRejectsOutOfRange ==
    (FieldOutOfRange /\ pc = "done")
        => /\ IsCommandError(ret.err)
           /\ sent = << >>

\* the category a status call asks for
RequestedCategory ==
    CASE call.op = "Status" -> Arg(1)
      [] call.op = "GetSensorData" -> 10
      [] call.op = "GetState" -> 11

\* C12: Status(n) with n in 0..11, GetSensorData (category 10) and GetState
\* (category 11) send exactly one request whose cmnd is "Status " followed by
\* the category written in decimal.
C12_StatusSendsDecimalCategory ==
    (/\ pc # "idle"
     /\ \/ call.op = "Status" /\ Arg(1) \in 0..11
        \/ call.op \in {"GetSensorData", "GetState"})
        => /\ Len(sent) = 1
           /\ CmndOf(sent[1]) = "Status " \o Itoa(RequestedCategory)

\* the sub-object of the status response each getter hands back
GetterField ==
    [GetDeviceInfo |-> "Status", GetFirmwareInfo |-> "StatusFWR",
     GetNetworkInfo |-> "StatusNET", GetMQTTInfo |-> "StatusMQT",
     GetSensorData |-> "StatusSNS", GetState |-> "StatusSTS"]

\* C13: GetDeviceInfo, GetFirmwareInfo, GetNetworkInfo, GetMQTTInfo,
\* GetSensorData and GetState fail with a Parse error when the device answers
\* valid JSON without the sub-object of their category, and never return a
\* nil result together with a nil error.
C13_GetterMissingFieldIsParseError ==
    (pc = "done" /\ call.op \in DOMAIN GetterField)
        => /\ ret.err = NilError => ~ret.val.isNil
           /\ (/\ exec.called
               /\ exec.err = NilError
               /\ Member(ParseJSON(exec.raw.v).val, GetterField[call.op]).t = "null")
                 => (IsParseError(ret.err) /\ ret.val.isNil)

C13_Witness ==
    /\ pc = "done"
    /\ call.op = "GetMQTTInfo"
    /\ exec.err = NilError
    /\ exec.raw = Some("{\"Status\":{\"Module\":1,\"DeviceName\":\"Plug\",\"Topic\":\"plug\"}}")
    /\ IsParseError(ret.err)
    /\ ret.val.isNil

\* C14: PowerN(n, s) with n in 1..8 and s one of ON, OFF, TOGGLE, BLINK sends
\* exactly one request whose cmnd is "Power<n> <s>", and when the device
\* answers {"POWER<n>":"ON"} the result reports relay n as on.
C14_PowerNSwitchesRelay ==
    (/\ pc # "idle"
     /\ call.op = "PowerN"
     /\ Arg(1) \in 1..8
     /\ Arg(2) \in {"ON", "OFF", "TOGGLE", "BLINK"})
        => /\ Len(sent) = 1
           /\ CmndOf(sent[1]) = "Power" \o Itoa(Arg(1)) \o " " \o Arg(2)
           /\ (/\ pc = "done"
               /\ exec.err = NilError
               /\ exec.raw = Some("{\"POWER" \o Itoa(Arg(1)) \o "\":\"ON\"}"))
                 => /\ ret.err = NilError
                    /\ IsOn(ret.val.v, Arg(1))

C14_Witness ==
    /\ pc = "done"
    /\ call.op = "PowerN"
    /\ Arg(1) = 8
    /\ Arg(2) = "TOGGLE"
    /\ CmndOf(sent[1]) = "Power8 TOGGLE"
    /\ exec.raw = Some("{\"POWER8\":\"ON\"}")
    /\ ret.err = NilError
    /\ IsOn(ret.val.v, 8)
    /\ ~IsOn(ret.val.v, 1)

\* the settings of a DeviceConfig in the order ApplyConfig is to list them
SettingOrder ==
    <<"DeviceName", "FriendlyName1", "FriendlyName2", "FriendlyName3",
      "FriendlyName4", "FriendlyName5", "FriendlyName6", "FriendlyName7",
      "FriendlyName8", "PowerOnState", "LedState", "Sleep", "ButtonRetain",
      "SwitchRetain", "SensorRetain", "PowerRetain">>

SettingRank(setting) == CHOOSE i \in 1..Len(SettingOrder) : SettingOrder[i] = setting

\* the setting a sub-command names: its text up to the first space
SettingOf(cmd) == Split(cmd, " ")[1]

\* a non-nil DeviceConfig whose numeric fields all lie in their ranges
ValidDeviceConfig ==
    /\ call.op = "ApplyConfig"
    /\ ~Arg(1).isNil
    /\ Arg(1).v.PowerOnState \in 0..5
    /\ Arg(1).v.LedState \in 0..8
    /\ Arg(1).v.Sleep \in 0..250
    /\ \A k \in {"ButtonRetain", "SwitchRetain", "SensorRetain", "PowerRetain"} :
           Arg(1).v[k] \in 0..1

\* C15: ApplyConfig on a valid config makes exactly one request; its cmnd
\* begins with "Backlog " and lists the sub-commands in the order DeviceName,
\* FriendlyName1..n, PowerOnState, LedState, Sleep, ButtonRetain, SwitchRetain,
\* SensorRetain, PowerRetain, each numeric setting with the value of its field.
C15_ApplyConfigOrder ==
    (pc # "idle" /\ ValidDeviceConfig)
        => /\ Len(sent) = 1
           /\ SubSeq(CmndOf(sent[1]), 1, Len("Backlog ")) = "Backlog "
           /\ LET subs == DeviceSubCommands(CmndOf(sent[1]))
                  d == Arg(1).v
              IN /\ \A i \in 1..Len(subs) :
                        \E r \in 1..Len(SettingOrder) : SettingOrder[r] = SettingOf(subs[i])
                 /\ \A i, j \in 1..Len(subs) :
                        i < j => SettingRank(SettingOf(subs[i])) < SettingRank(SettingOf(subs[j]))
                 /\ \A k \in {"PowerOnState", "LedState", "Sleep", "ButtonRetain",
                              "SwitchRetain", "SensorRetain", "PowerRetain"} :
                        \E i \in 1..Len(subs) : subs[i] = k \o " " \o Itoa(d[k])
                 /\ d.DeviceName # "" => subs[1] = "DeviceName " \o d.DeviceName
                 /\ \A n \in 1..Len(d.FriendlyName) :
                        (d.FriendlyName[n] # "")
                            <=> \E i \in 1..Len(subs) :
                                   subs[i] = "FriendlyName" \o Itoa(n) \o " " \o d.FriendlyName[n]

C15_Witness ==
    /\ pc = "done"
    /\ call.op = "ApplyConfig"
    /\ ValidDeviceConfig
    /\ Arg(1).v.DeviceName = "TestDevice"
    /\ ret.err = NilError
    /\ Len(sent) = 1
    /\ CmndOf(sent[1]) = "Backlog DeviceName TestDevice; FriendlyName1 Lamp; FriendlyName3 Fan; PowerOnState 3; LedState 1; Sleep 0; ButtonRetain 0; SwitchRetain 0; SensorRetain 0; PowerRetain 0"

\* C16: no automatic retry.  A call of ExecuteCommand or ExecuteBacklog, made
\* directly or by a facade, has one request sent (GetMQTTConfig alone makes two
\* such calls, the second only when the first succeeded); the step in which a
\* request fails (transport error, 401, other non-200, non-JSON body) ends the
\* operation, sends nothing and hands that error to the caller, and nothing is
\* sent afterwards until the caller has taken the result.
C16_NoRetry ==
    [][/\ Len(sent') <= (IF call'.op = "GetMQTTConfig" THEN 2 ELSE 1)
       /\ (pc = "inflight" /\ exec'.err # NilError)
             => /\ pc' = "done"
                /\ sent' = sent
                /\ ret'.err = exec'.err
                /\ call.op \in {"ExecuteCommand", "ExecuteBacklog"} => ret'.val.isNil
       /\ (pc = "done" /\ pc' # "idle") => sent' = sent]_vars

C16_Witness ==
    /\ pc = "done"
    /\ call.op = "ExecuteBacklog"
    /\ outcome.t = "response"
    /\ outcome.status = 500
    /\ Len(sent) = 1
    /\ IsNetworkError(ret.err)
    /\ ret.val.isNil

\* C18: no step of any operation - the call, its completion, its failure, its
\* return - changes the Client's base URL, HTTP client reference, username,
\* password or debug flag.
C18_ClientIsFrozen ==
    [][/\ client'.baseURL = client.baseURL
       /\ client'.httpClient = client.httpClient
       /\ client'.username = client.username
       /\ client'.password = client.password
       /\ client'.debug = client.debug]_vars

C18_Witness ==
    /\ pc = "done"
    /\ call.op = "SetMQTTConfig"
    /\ IsAuthError(ret.err)
    /\ client = [baseURL |-> "https://tasmota.local:8443", httpClient |-> "custom",
                 username |-> "admin", password |-> "p&s=1", debug |-> TRUE]

\* strings.Contains
Contains(s, substr) ==
    \E i \in 1..(Len(s) - Len(substr) + 1) : SubSeq(s, i, i + Len(substr) - 1) = substr

\* C19: with logging enabled, no logged line contains the configured
\* basic-auth username or password, unless the command of the request
\* contains it already.
C19_LogHidesCredentials ==
    \A i \in 1..Len(DebugLog) :
        \A secret \in {client.username, client.password} \ {""} :
            Contains(DebugLog[i], secret) => Contains(CmndOf(sent[1]), secret)

\* the path of a URL "scheme://host/path?query"
PathOf(urlStr) ==
    LET host == IndexFrom(urlStr, "/", 1) + 2
        slash == IndexFrom(urlStr, "/", host)
        q == IndexFrom(urlStr, "?", 1)
    IN IF slash = 0 \/ (q # 0 /\ q < slash) THEN ""
       ELSE SubSeq(urlStr, slash, IF q = 0 THEN Len(urlStr) ELSE q - 1)

\* url.Values.Has
HasParam(urlStr, key) ==
    \E i \in 1..Len(QueryPairs(urlStr)) : QueryPairs(urlStr)[i][1] = key

\* C20: for a non-empty command the URL buildURL returns has the path /cm
\* and, parsed back, a cmnd parameter equal to the command; the user
\* parameter is present exactly when the username is non-empty, the password
\* parameter exactly when the password is non-empty.
C20_BuildURLRoundTrip ==
    (pc = "done" /\ call.op = "buildURL" /\ call.command # "")
        => /\ ret.err = NilError
           /\ ~ret.val.isNil
           /\ PathOf(ret.val.v) = "/cm"
           /\ HasParam(ret.val.v, "cmnd")
           /\ Param(ret.val.v, "cmnd") = call.command
           /\ HasParam(ret.val.v, "user") <=> client.username # ""
           /\ HasParam(ret.val.v, "password") <=> client.password # ""

C20_Witness ==
    /\ pc = "done"
    /\ call.op = "buildURL"
    /\ call.command = "cmnd=1&user=u"
    /\ client.username = ""
    /\ client.password = "p&s=1"
    /\ ret.val = Some("http://192.168.1.100/cm?cmnd=cmnd%3D1%26user%3Du&password=p%26s%3D1")
    /\ ~HasParam(ret.val.v, "user")
    /\ Param(ret.val.v, "password") = "p&s=1"

\* the requests in sent that caller g handed to httpClient.Do
RequestsOf(g) == SelectSeq(sent, LAMBDA r : r.by = g)

\* the command of the operation caller g called
OwnCommand(g) ==
    IF call[g].op = "ExecuteCommand" THEN call[g].args[1]
    ELSE "Power" \o Itoa(call[g].args[1])

\* C17: under every interleaving of the callers of one Client, each call
\* sends one request, built from its own command, and returns what follows
\* from the outcome of its own request: the body for a 200 with JSON, an Auth
\* error for a 401, a Parse error for a body that is no JSON, a Network error
\* for a failed transport; two calls with the same input and the same outcome
\* return the same, whatever the other caller does meanwhile.
C17_CallsDoNotInterfere ==
    \A g \in Callers :
        /\ (pc[g] \in {"inflight", "done"} /\ plan[g].t = "send")
              => /\ Len(RequestsOf(g)) = 1
                 /\ RequestsOf(g)[1].url = buildURL(client, OwnCommand(g)).url
                 /\ CmndOf(RequestsOf(g)[1].url) = OwnCommand(g)
        /\ (pc[g] \in {"idle", "built"} \/ plan[g].t # "send")
              => Len(RequestsOf(g)) = 0
        /\ (pc[g] = "done" /\ outcome[g].t = "response")
              => /\ outcome[g].status = StatusUnauthorized => IsAuthError(ret[g].err)
                 /\ (outcome[g].status = StatusOK /\ ~JSONValid(outcome[g].body))
                       => IsParseError(ret[g].err)
                 /\ (outcome[g].status = StatusOK /\ JSONValid(outcome[g].body))
                       => /\ ret[g].err = NilError
                          /\ call[g].op = "ExecuteCommand"
                                => ret[g].val = Some(outcome[g].body)
                          /\ call[g].op = "GetPowerN"
                                => ret[g].val.v["POWER2"] =
                                      StringField(ParseJSON(outcome[g].body).val, "POWER2")
        /\ (pc[g] = "done" /\ outcome[g].t = "error") => IsNetworkError(ret[g].err)
        /\ \A h \in Callers :
              (/\ pc[g] = "done" /\ pc[h] = "done"
               /\ call[g] = call[h]
               /\ outcome[g] = outcome[h]
               /\ ctxErr[g] = ctxErr[h])
                 => ret[g] = ret[h]

C17_Witness ==
    /\ pc["g1"] = "done"
    /\ pc["g2"] = "inflight"
    /\ call["g1"] = [op |-> "ExecuteCommand", args |-> <<"Power1 ON">>]
    /\ call["g2"] = [op |-> "GetPowerN", args |-> <<2>>]
    /\ Len(sent) = 2
    /\ sent[1].by = "g2"
    /\ CmndOf(sent[1].url) = "Power2"
    /\ sent[2].by = "g1"
    /\ CmndOf(sent[2].url) = "Power1 ON"
    /\ ctxErr["g2"] = "Canceled"
    /\ ctxErr["g1"] = "nil"
    /\ ret["g1"] = [err |-> NilError, val |-> Some("{\"POWER1\":\"ON\"}")]

\* the scheme prefix a host string starts with, "" when it has none
SchemeOf(host) ==
    IF Len(host) >= 7 /\ SubSeq(host, 1, 7) = "http://" THEN "http://"
    ELSE IF Len(host) >= 8 /\ SubSeq(host, 1, 8) = "https://" THEN "https://"
    ELSE ""

\* host without its trailing slashes
WithoutTrailingSlashes(host) ==
    IF \A i \in 1..Len(host) : CharAt(host, i) = "/" THEN ""
    ELSE SubSeq(host, 1, CHOOSE i \in 1..Len(host) :
                            /\ CharAt(host, i) # "/"
                            /\ \A j \in (i + 1)..Len(host) : CharAt(host, j) = "/")

\* the host component of a host string: what stands between the scheme
\* prefix, if any, and the first '/' after it
HostComponent(host) ==
    LET rest == SubSeq(host, Len(SchemeOf(host)) + 1, Len(host))
        slash == IndexFrom(rest, "/", 1)
    IN IF slash = 0 THEN rest ELSE SubSeq(rest, 1, slash - 1)

\* C21: NewClient normalizes its host: a host without a scheme that it
\* accepts becomes "http://" followed by the host without its trailing
\* slashes; a host that starts with http:// or https:// keeps that scheme; an
\* empty host, or one whose host component is empty, gives an error and no
\* client.
C21_NormalizeHost ==
    (pc = "done" /\ call.op = "NewClient")
        => LET host == Arg(1) IN
           /\ (SchemeOf(host) = "" /\ ret.err = NilError)
                 => ret.val.v.baseURL = "http://" \o WithoutTrailingSlashes(host)
           /\ (SchemeOf(host) # "" /\ ret.err = NilError)
                 => SchemeOf(ret.val.v.baseURL) = SchemeOf(host)
           /\ (host = "" \/ HostComponent(host) = "")
                 => (ret.err # NilError /\ ret.val.isNil)

\* the trimmed input commands that are not empty, in the order of the input
Survivors ==
    LET idx == {i \in 1..Len(call.commands) : TrimmedInputs[i] # ""}
    IN [k \in 1..Cardinality(idx) |->
           TrimmedInputs[CHOOSE i \in idx : Cardinality({j \in idx : j < i}) = k - 1]]

\* C22: ExecuteBacklog on a list of at most 30 commands of which at least one
\* is not blank sends one request; its cmnd lists the commands trimmed of
\* leading and trailing white space, without those that are empty after
\* trimming, in their original relative order, and the call is not rejected.
C22_BacklogTrimsAndDrops ==
    (/\ IsBacklogCall
     /\ Len(call.commands) \in 1..30
     /\ ~AllBlank(call.commands))
        => /\ plan.t = "send"
           /\ Len(sent) = 1
           /\ CmndOf(sent[1]) = "Backlog " \o Join(Survivors, "; ")
           /\ (pc = "done" /\ exec.err = NilError) => ret.err = NilError

C22_Witness ==
    /\ pc = "done"
    /\ IsBacklogCall
    /\ Len(call.commands) = 30
    /\ \E i \in 1..30 : TrimmedInputs[i] = ""
    /\ \E i \in 1..30 : TrimmedInputs[i] # "" /\ TrimmedInputs[i] # call.commands[i]
    /\ Len(Survivors) = 15
    /\ Len(sent) = 1
    /\ ret.err = NilError

\* the settings SetMQTTConfig is to list after "SetOption3 0", in order, each
\* with the text of its value, "" when the field gives no sub-command
MQTTSettings(m) ==
    <<<<"MqttHost", m.Host>>,
      <<"MqttPort", IF m.Port \in 1..65535 THEN Itoa(m.Port) ELSE "">>,
      <<"MqttUser", m.User>>,
      <<"MqttPassword", m.Password>>,
      <<"MqttClient", m.Client>>,
      <<"Topic", m.Topic>>,
      <<"FullTopic", m.FullTopic>>,
      <<"GroupTopic", m.GroupTopic>>,
      <<"Prefix1", m.Prefix1>>,
      <<"Prefix2", m.Prefix2>>,
      <<"Prefix3", m.Prefix3>>,
      <<"PowerRetain", IF m.Retain THEN "1" ELSE "">>,
      <<"TelePeriod", IF m.TelePeriod \in 10..3600 THEN Itoa(m.TelePeriod) ELSE "">>>>

\* the sub-commands of the settings that have a value, in the order above
MQTTSubCommands(m) ==
    LET given == SelectSeq(MQTTSettings(m), LAMBDA st : st[2] # "")
    IN [i \in 1..Len(given) |-> given[i][1] \o " " \o given[i][2]]

\* C23: the Backlog SetMQTTConfig sends starts with "SetOption3 0", followed
\* by the sub-commands of the fields that are set in the order MqttHost,
\* MqttPort, MqttUser, MqttPassword, MqttClient, Topic, FullTopic, GroupTopic,
\* Prefix1, Prefix2, Prefix3, PowerRetain, TelePeriod; a nil config and a
\* config that gives no sub-command besides SetOption3 fail with a Command
\* error and nothing is sent.
C23_MQTTConfigOrder ==
    (pc # "idle" /\ call.op = "SetMQTTConfig")
        => IF Arg(1).isNil \/ MQTTSubCommands(Arg(1).v) = << >>
           THEN /\ pc = "done"
                /\ IsCommandError(ret.err)
                /\ sent = << >>
           ELSE /\ Len(sent) = 1
                /\ CmndOf(sent[1]) =
                      "Backlog " \o Join(<<"SetOption3 0">> \o MQTTSubCommands(Arg(1).v), "; ")

C23_Witness ==
    /\ pc = "done"
    /\ call.op = "SetMQTTConfig"
    /\ ~Arg(1).isNil
    /\ Len(MQTTSubCommands(Arg(1).v)) = 13
    /\ ret.err = NilError
    /\ Len(sent) = 1
    /\ CmndOf(sent[1]) = "Backlog SetOption3 0; MqttHost broker; MqttPort 65535; MqttUser u; MqttPassword pw; MqttClient c1; Topic plug; FullTopic %prefix%/%topic%/; GroupTopic plugs; Prefix1 cmnd; Prefix2 stat; Prefix3 tele; PowerRetain 1; TelePeriod 3600"

\* the NetworkConfig of a SetNetworkConfig call asks for a static address
StaticRequested ==
    /\ ~Arg(1).v.UseDHCP
    /\ Arg(1).v.IPAddress # ""
    /\ Arg(1).v.Gateway # ""
    /\ Arg(1).v.Subnet # ""

\* the cases in which SetNetworkConfig is to fail before anything is sent
NetworkConfigRejected ==
    \/ Arg(1).isNil
    \/ Arg(1).v = ZeroNetworkConfig
    \/ Len(Arg(1).v.Hostname) > 32
    \/ /\ StaticRequested
       /\ \E k \in {"IPAddress", "Gateway", "Subnet"} : ~ParseIPOk(Arg(1).v[k])
    \/ Arg(1).v.DNSServer # "" /\ ~ParseIPOk(Arg(1).v.DNSServer)

\* sub is one of the sub-commands of the request sent
InBatch(sub) ==
    \E i \in 1..Len(DeviceSubCommands(CmndOf(sent[1]))) :
        DeviceSubCommands(CmndOf(sent[1]))[i] = sub

\* C24: SetNetworkConfig sends one Backlog request with the settings asked
\* for, or nothing: a hostname longer than 32 characters, an IP address,
\* gateway or subnet that is no IP (all three given, no DHCP), a DNS server
\* that is no IP, a nil and an empty config give a Command error with nothing
\* sent; with UseDHCP the batch holds "IPAddress1 0.0.0.0" and no IPAddress2
\* or IPAddress3.
C24_NetworkConfigAllOrNothing ==
    (pc # "idle" /\ call.op = "SetNetworkConfig")
        => IF NetworkConfigRejected
           THEN /\ pc = "done"
                /\ IsCommandError(ret.err)
                /\ sent = << >>
           ELSE LET n == Arg(1).v IN
                /\ Len(sent) <= 1
                /\ Len(sent) = 1 =>
                   /\ SubSeq(CmndOf(sent[1]), 1, Len("Backlog ")) = "Backlog "
                   /\ n.Hostname # "" => InBatch("Hostname " \o n.Hostname)
                   /\ n.DNSServer # "" => InBatch("IPAddress4 " \o n.DNSServer)
                   /\ n.SSID1 # "" => InBatch("SSId1 " \o n.SSID1)
                   /\ (n.SSID1 # "" /\ n.Password1 # "") => InBatch("Password1 " \o n.Password1)
                   /\ n.SSID2 # "" => InBatch("SSId2 " \o n.SSID2)
                   /\ StaticRequested
                         => /\ InBatch("IPAddress1 " \o n.IPAddress)
                            /\ InBatch("IPAddress2 " \o n.Gateway)
                            /\ InBatch("IPAddress3 " \o n.Subnet)
                   /\ n.UseDHCP
                         => /\ InBatch("IPAddress1 0.0.0.0")
                            /\ \A i \in 1..Len(DeviceSubCommands(CmndOf(sent[1]))) :
                                  Split(DeviceSubCommands(CmndOf(sent[1]))[i], " ")[1]
                                      \notin {"IPAddress2", "IPAddress3"}

C24_Witness ==
    /\ pc = "done"
    /\ call.op = "SetNetworkConfig"
    /\ ~Arg(1).isNil
    /\ Arg(1).v.UseDHCP
    /\ Arg(1).v.Gateway = "192.168.1.1"
    /\ ret.err = NilError
    /\ CmndOf(sent[1]) = "Backlog Hostname plug; IPAddress1 0.0.0.0; IPAddress4 8.8.8.8; SSId1 home; Password1 secret"

\* C25: GetMQTTConfig asks in sequence.  Its first request is "Status 6"; a
\* second request exists only once GetMQTTInfo has returned an mqttInfo, and
\* is "Status 1"; when the first fails nothing else is sent and that error is
\* what the caller gets; a successful call has sent exactly the two requests
\* and returns a configuration.
C25_GetMQTTConfigSequence ==
    (pc # "idle" /\ call.op = "GetMQTTConfig")
        => /\ Len(sent) \in 1..2
           /\ CmndOf(sent[1]) = "Status 6"
           /\ Len(sent) = 2
                 => /\ CmndOf(sent[2]) = "Status 1"
                    /\ ~plan.held.isNil
                    /\ plan.held.v.t = "object"
           /\ (pc = "done" /\ Len(sent) = 1)
                 => /\ ret.err # NilError
                    /\ ret.val.isNil
                    /\ IF exec.err # NilError THEN ret.err = exec.err
                       ELSE IsParseError(ret.err)
           /\ (pc = "done" /\ ret.err = NilError)
                 => /\ Len(sent) = 2
                    /\ ~ret.val.isNil

C25_Witness ==
    /\ pc = "done"
    /\ call.op = "GetMQTTConfig"
    /\ ret.err = NilError
    /\ sent = <<buildURL(client, "Status 6").url, buildURL(client, "Status 1").url>>
    /\ ret.val.v.Host = "broker"
    /\ ret.val.v.Port = 1883
    /\ ret.val.v.Topic = "plug"

\* C26: TestMQTTConnection returns nil exactly when the MQTT status query
\* succeeded and reported a non-empty MqttHost and a non-zero MqttCount; with
\* an empty host or a count of 0 in a successful exchange it returns a Device
\* error; it returns no Device error when the exchange itself failed.
C26_TestMQTTConnection ==
    (pc = "done" /\ call.op = "TestMQTTConnection")
        => LET exchanged == exec.err = NilError
               mqttInfo == Member(ParseJSON(outcome.body).val, "StatusMQT")
               queried == exchanged /\ mqttInfo.t = "object"
               connected == /\ StringField(mqttInfo, "MqttHost") # ""
                            /\ IntField(mqttInfo, "MqttCount") # 0
           IN /\ ret.err = NilError <=> (queried /\ connected)
              /\ (queried /\ ~connected) => IsDeviceError(ret.err)
              /\ ~exchanged => /\ ~IsDeviceError(ret.err)
                               /\ ret.err = exec.err

C26_Witness ==
    /\ pc = "done"
    /\ call.op = "TestMQTTConnection"
    /\ outcome.t = "response"
    /\ outcome.status = StatusOK
    /\ StringField(Member(ParseJSON(outcome.body).val, "StatusMQT"), "MqttHost") = "broker"
    /\ IntField(Member(ParseJSON(outcome.body).val, "StatusMQT"), "MqttCount") = 0
    /\ IsDeviceError(ret.err)
    /\ ret.err[1].Message = "MQTT not connected"

\* the seven numeric fields of DeviceConfig with the range ApplyConfig accepts
NumericSettings ==
    [PowerOnState |-> 0..5, LedState |-> 0..8, Sleep |-> 0..250,
     ButtonRetain |-> 0..1, SwitchRetain |-> 0..1, SensorRetain |-> 0..1,
     PowerRetain |-> 0..1]

NoNameGiven ==
    /\ Arg(1).v.DeviceName = ""
    /\ \A i \in 1..Len(Arg(1).v.FriendlyName) : Arg(1).v.FriendlyName[i] = ""

\* C27: ApplyConfig on a non-nil DeviceConfig sends the sub-command of each of
\* PowerOnState, LedState, Sleep, ButtonRetain, SwitchRetain, SensorRetain and
\* PowerRetain whose field is in range, the zero value included, and of no
\* field that is out of range; the empty DeviceConfig sends a Backlog setting
\* all seven to 0; "no valid configuration changes to apply" is returned
\* exactly when no name is given and all seven fields are out of range.
C27_ApplyConfigSendsZeroValues ==
    (pc # "idle" /\ call.op = "ApplyConfig" /\ ~Arg(1).isNil)
        => LET Lists(subs) ==
                   \A k \in DOMAIN NumericSettings :
                       IF Arg(1).v[k] \in NumericSettings[k]
                       THEN /\ Len(sent) = 1
                            /\ \E i \in 1..Len(subs) :
                                   subs[i] = k \o " " \o Itoa(Arg(1).v[k])
                       ELSE \A i \in 1..Len(subs) : SettingOf(subs[i]) # k
           IN /\ Lists(IF sent = << >> THEN << >>
                       ELSE DeviceSubCommands(CmndOf(sent[1])))
              /\ Arg(1).v = ZeroDeviceConfig
                    => CmndOf(sent[1]) = "Backlog PowerOnState 0; LedState 0; Sleep 0; ButtonRetain 0; SwitchRetain 0; SensorRetain 0; PowerRetain 0"
              /\ (/\ pc = "done"
                  /\ IsCommandError(ret.err)
                  /\ ret.err[1].Message = "no valid configuration changes to apply")
                    <=> (/\ NoNameGiven
                         /\ \A k \in DOMAIN NumericSettings :
                                Arg(1).v[k] \notin NumericSettings[k])

C27_Witness ==
    /\ pc = "done"
    /\ call.op = "ApplyConfig"
    /\ Arg(1) = Some(ZeroDeviceConfig)
    /\ ret.err = NilError
    /\ CmndOf(sent[1]) = "Backlog PowerOnState 0; LedState 0; Sleep 0; ButtonRetain 0; SwitchRetain 0; SensorRetain 0; PowerRetain 0"

\* C28: a call returns a Timeout error only when httpClient.Do failed and the
\* caller's context reported DeadlineExceeded at that moment; when the HTTP
\* client's own Timeout ends the request and the caller's context has no
\* expired deadline, the error is a Network error and IsTimeoutError is false.
C28_TimeoutNeedsCallerDeadline ==
    pc = "done"
        => /\ IsTimeoutError(ret.err)
                 => /\ ctxErr = "DeadlineExceeded"
                    /\ outcome.t = "error"
           /\ (/\ outcome.t = "error"
               /\ outcome.cause = "http.Client.Timeout"
               /\ ctxErr # "DeadlineExceeded")
                 => /\ IsNetworkError(ret.err)
                    /\ ~IsTimeoutError(ret.err)

C28_Witness ==
    /\ pc = "done"
    /\ outcome.t = "error"
    /\ outcome.cause = "http.Client.Timeout"
    /\ ctxErr = "nil"
    /\ IsNetworkError(ret.err)
    /\ ~IsTimeoutError(ret.err)
    /\ ret.err[1].Message = "request failed"

\* C29: NewClient applies its options in the order given, each to the state
\* the earlier ones left.  The Client uses the caller's http.Client once
\* WithHTTPClient is among them; a WithTimeout writes the Timeout of the
\* http.Client the Client holds at that point: the caller's own object after a
\* WithHTTPClient (a write every holder of that object sees), the one
\* NewClient made before it (a value that a later WithHTTPClient leaves
\* behind).
C29_OptionsApplyInOrder ==
    (pc = "done" /\ call.op = "NewClient" /\ ret.err = NilError)
        => LET opts == Arg(2)
               Is(i, name) == opts[i].opt = name
               replaced(j) == \E i \in 1..(j - 1) : Is(i, "WithHTTPClient")
           IN /\ ret.val.v.httpClient =
                     (IF replaced(Len(opts) + 1) THEN "custom" ELSE "default")
              /\ ret.objects["custom"].Timeout =
                     (IF \E j \in 1..Len(opts) : Is(j, "WithTimeout") /\ replaced(j)
                      THEN 3 ELSE 5)
              /\ ret.objects["default"].Timeout =
                     (IF \E j \in 1..Len(opts) : Is(j, "WithTimeout") /\ ~replaced(j)
                      THEN 3 ELSE DefaultResponseTimeout)
              /\ (Len(opts) = 2 /\ Is(1, "WithTimeout") /\ Is(2, "WithHTTPClient"))
                    => ret.objects[ret.val.v.httpClient].Timeout = 5
              /\ (Len(opts) = 2 /\ Is(1, "WithHTTPClient") /\ Is(2, "WithTimeout"))
                    => /\ ret.objects["custom"].Timeout = 3
                       /\ ret.objects["default"].Timeout = DefaultResponseTimeout

C29_Witness ==
    /\ pc = "done"
    /\ call.op = "NewClient"
    /\ ret.err = NilError
    /\ Arg(2) = <<[opt |-> "WithHTTPClient", client |-> "custom"],
                  [opt |-> "WithTimeout", timeout |-> 3]>>
    /\ ret.val.v.httpClient = "custom"
    /\ ret.objects["custom"].Timeout = 3

IsExecutorCall == call.op \in {"ExecuteCommand", "ExecuteBacklog"}

\* the white space json.Unmarshal skips around the value of a document
OnlyWhiteSpace(s) == \A i \in 1..Len(s) : IsSpace(CharAt(s, i))

====
